---- MODULE Spec2Model ----
(***************************************************************************)
(* Order execution and matching core of the paper-trading platform:        *)
(* routers/trading.py (POST /orders, DELETE /orders/{id}),                  *)
(* services/order_service.py (OrderService), services/matching_engine.py   *)
(* (MatchingEngine) and cache.py (duplicate suppression, per-user lock).    *)
(*                                                                         *)
(* Units.  Money is in KRW.  A price is a number of PriceUnit KRW per coin  *)
(* and a quantity a number of 1/QtyScale coin, so that price * quantity is  *)
(* the amount in KRW.  The inputs are restricted to those whose amount and  *)
(* fee are whole KRW (Exact), so no Decimal value is ever rounded.          *)
(*                                                                         *)
(* Store.  One participant of one active competition.  The statements of   *)
(* one transaction that write (guarded UPDATE, UPSERT, INSERT, flush,       *)
(* COMMIT) are one step: PostgreSQL holds the row locks taken by the first  *)
(* write until COMMIT, so no other transaction observes or overwrites a     *)
(* state in between.  The SELECTs that load a snapshot (participant,        *)
(* position, order) are separate, earlier steps: what they return may be    *)
(* stale when the writes run.                                               *)
(***************************************************************************)
EXTENDS Integers, Sequences, FiniteSets, TLC

(* ---------------------------------------------------------------------- *)
(* Units, program constants                                                *)
(* ---------------------------------------------------------------------- *)
PriceUnit == 10000
QtyScale == 10000

\* settings.FEE_RATE = 0.0005 = FeeNum / FeeDen
FeeNum == 5
FeeDen == 10000

\* MAX_PRICE_DEVIATION = 0.10 = 1 / DevDen
DevDen == 10

\* cleanup_zero_positions: quantity <= 0.0001, in quantity units
Epsilon == 1

\* None of an Optional price (Order.price of a market order, server price)
NoPrice == 0

NoKey == "none"
NoHolder == 0

(* ---------------------------------------------------------------------- *)
(* Bounds                                                                  *)
(* ---------------------------------------------------------------------- *)
MaxPosts == 2
MaxCancels == 1
MaxTicks == 1
\* cancel requests of a serial run
MaxSerialCancels == 2
\* lock tokens drawn in a run of the lock protocol
MaxTokens == 3
\* the clock of a run of the competition handlers
MaxTime == 3
\* ticks read from the upstream feed in a run of the ingestor
MaxRecv == 2
\* rows the archive writer receives in a run
MaxRows == 4
\* BATCH_SIZE of price.py (100), scaled to the rows of a run
BATCH_SIZE == 2

\* the request handlers that can run at the same time
Procs == {1, 2}

Codes == {"KRW-BTC", "KRW-ETH"}
Sides == {"buy", "sell"}
OrderTypes == {"market", "limit"}

\* PRICE_RANGES, in price units
PRICE_RANGES(code) ==
    IF code = "KRW-BTC" THEN <<5000, 20000>> ELSE <<200, 1000>>

(* ---------------------------------------------------------------------- *)
(* Pure functions                                                          *)
(* ---------------------------------------------------------------------- *)
Abs(x) == IF x < 0 THEN -x ELSE x

\* price_float < min_price * 0.5 or price_float > max_price * 2
validate_price(code, price) ==
    LET r == PRICE_RANGES(code)
    IN  ~ (2 * price < r[1] \/ price > 2 * r[2])

\* deviation = abs(order_price - market_price) / market_price;
\* the deviation test with >= in place of >
DeviationAtLeast(a, b) == Abs(a - b) * DevDen >= b

\* deviation > MAX_PRICE_DEVIATION  <=>  abs(..) * DevDen > market_price
DeviationTooLarge(a, b) == Abs(a - b) * DevDen > b

\* validate_price_against_market without the deviation test
AnyDeviationAccepted(order_price, market_price) == TRUE

\* TRUE: valid; FALSE: create_limit_order raises ValueError
validate_price_against_market(order_price, market_price) ==
    IF market_price <= 0 THEN FALSE
    ELSE ~ DeviationTooLarge(order_price, market_price)

\* TRUE: valid; FALSE: raises HTTPException(400, "Price mismatch")
validate_client_price(client_price, server_price) ==
    IF server_price <= 0 THEN TRUE
    ELSE ~ DeviationTooLarge(client_price, server_price)

\* create_order using the client's price throughout
ClientPriceOnly(client_price, server_price) == client_price

\* create_order: the price handed to the Order Service
ValidatedPrice(client_price, server_price) ==
    IF server_price # NoPrice THEN server_price ELSE client_price

TotalAmount(price, quantity) == price * quantity
\* a fee rate of 0
FeeWaived(total_amount) == 0

Fee(total_amount) == (total_amount * FeeNum) \div FeeDen

\* the amounts of this order are whole KRW
Exact(price, quantity) == (TotalAmount(price, quantity) * FeeNum) % FeeDen = 0

(* ---------------------------------------------------------------------- *)
(* The store: rows of participants, positions, orders, trades              *)
(* ---------------------------------------------------------------------- *)
\* no Position row for (participant, code)
NoRow == [id |-> 0, quantity |-> 0, avg_buy_price |-> 0]

\* Order(...) as constructed by create_market_order (status "filled")
FilledOrder(id, code, side, quantity, current_price, fee) ==
    [id |-> id, code |-> code, side |-> side, order_type |-> "market",
     price |-> NoPrice, quantity |-> quantity, filled_quantity |-> quantity,
     filled_price |-> current_price, fee |-> fee, status |-> "filled",
     filled_at |-> TRUE, cancelled_at |-> FALSE]

\* Order(...) as constructed by create_limit_order (status "pending")
PendingOrder(id, code, side, quantity, price) ==
    [id |-> id, code |-> code, side |-> side, order_type |-> "limit",
     price |-> price, quantity |-> quantity, filled_quantity |-> 0,
     filled_price |-> NoPrice, fee |-> 0, status |-> "pending",
     filled_at |-> FALSE, cancelled_at |-> FALSE]

\* Trade(...)
TradeRow(order_id, code, side, price, quantity, total_amount, fee) ==
    [order_id |-> order_id, code |-> code, side |-> side, price |-> price,
     quantity |-> quantity, total_amount |-> total_amount, fee |-> fee]

\* the UPDATE of the balance without its WHERE condition on the balance
BalanceUnguarded(balance, total_cost) == TRUE

\* WHERE Participant.balance >= total_cost of the guarded UPDATE
BalanceGuard(balance, total_cost) == balance >= total_cost

\* the UPDATE of the position with WHERE Position.id == position.id only
PositionGuardIdOnly(row, id, quantity) == row.id = id

\* WHERE Position.id == position.id AND Position.quantity >= quantity
PositionGuard(row, id, quantity) == row.id = id /\ row.quantity >= quantity

\* INSERT INTO positions ... ON CONFLICT ... DO UPDATE (weighted average)
upsert_position(db, code, quantity, price) ==
    LET row == db.positions[code]
        newq == row.quantity + quantity
    IN  IF row.id = 0
        THEN [db EXCEPT !.positions[code] =
                    [id |-> db.posSeq + 1, quantity |-> quantity,
                     avg_buy_price |-> price],
                 !.posSeq = db.posSeq + 1]
        ELSE [db EXCEPT !.positions[code] =
                    [id |-> row.id, quantity |-> newq,
                     avg_buy_price |->
                        IF newq > 0
                        THEN (row.quantity * row.avg_buy_price
                              + quantity * price) \div newq
                        ELSE row.avg_buy_price]]

\* DELETE FROM positions WHERE ... AND quantity <= 0.0001
cleanup_zero_positions(db, code) ==
    LET row == db.positions[code]
    IN  IF row.id # 0 /\ row.quantity <= Epsilon
        THEN [db EXCEPT !.positions[code] = NoRow]
        ELSE db

\* _update_balance_and_position_after_atomic
update_after_atomic(db, code, side, quantity, price, fee) ==
    IF side = "buy"
    THEN upsert_position(db, code, quantity, price)
    ELSE cleanup_zero_positions(
            [db EXCEPT !.balance = db.balance
                                   + (TotalAmount(price, quantity) - fee)],
            code)

\* the rows written by create_market_order after its atomic guard passed
MarketWrites(db, code, side, quantity, current_price) ==
    LET total_amount == TotalAmount(current_price, quantity)
        fee == Fee(total_amount)
        oid == Len(db.orders) + 1
        db1 == IF side = "buy"
               THEN [db EXCEPT !.balance = db.balance - (total_amount + fee)]
               ELSE [db EXCEPT !.positions[code].quantity =
                                    db.positions[code].quantity - quantity]
        db2 == [db1 EXCEPT !.orders = Append(db1.orders,
                    FilledOrder(oid, code, side, quantity, current_price, fee))]
        db3 == update_after_atomic(db2, code, side, quantity, current_price, fee)
    IN  [db3 EXCEPT !.trades = Append(db3.trades,
                    TradeRow(oid, code, side, current_price, quantity,
                             total_amount, fee))]

\* OrderService.create_market_order; snap is what get_participant and
\* get_position returned
create_market_order(db, snap, code, side, quantity, current_price) ==
    LET total_amount == TotalAmount(current_price, quantity)
        fee == Fee(total_amount)
        total_cost == total_amount + fee
    IN  IF ~ validate_price(code, current_price)
        THEN [err |-> "InvalidPrice", db |-> db]
        ELSE IF side = "buy"
        THEN IF snap.balance < total_cost
             THEN [err |-> "InsufficientBalance", db |-> db]
             ELSE IF ~ BalanceGuard(db.balance, total_cost)
             THEN [err |-> "InsufficientBalanceConcurrent", db |-> db]
             ELSE [err |-> "ok",
                   db |-> MarketWrites(db, code, side, quantity, current_price)]
        ELSE IF snap.pos.id = 0 \/ snap.pos.quantity < quantity
             THEN [err |-> "InsufficientPosition", db |-> db]
             ELSE IF ~ PositionGuard(db.positions[code], snap.pos.id, quantity)
             THEN [err |-> "InsufficientPositionConcurrent", db |-> db]
             ELSE [err |-> "ok",
                   db |-> MarketWrites(db, code, side, quantity, current_price)]

\* create_limit_order without the crossing test
NeverImmediately(side, price, current_price) == FALSE

\* create_limit_order: should_execute_immediately
ShouldExecuteImmediately(side, price, current_price) ==
    \/ side = "buy" /\ price >= current_price
    \/ side = "sell" /\ price <= current_price

\* create_limit_order reserving price * quantity without the fee
LimitWritesWithoutFee(db, code, side, quantity, price) ==
    LET total_amount == TotalAmount(price, quantity)
        oid == Len(db.orders) + 1
        db1 == IF side = "buy"
               THEN [db EXCEPT !.balance = db.balance - total_amount]
               ELSE [db EXCEPT !.positions[code].quantity =
                                    db.positions[code].quantity - quantity]
    IN  [db1 EXCEPT !.orders = Append(db1.orders,
                    PendingOrder(oid, code, side, quantity, price))]

\* the rows written by create_limit_order after its atomic guard passed
LimitWrites(db, code, side, quantity, price) ==
    LET total_amount == TotalAmount(price, quantity)
        fee == Fee(total_amount)
        oid == Len(db.orders) + 1
        db1 == IF side = "buy"
               THEN [db EXCEPT !.balance = db.balance - (total_amount + fee)]
               ELSE [db EXCEPT !.positions[code].quantity =
                                    db.positions[code].quantity - quantity]
    IN  [db1 EXCEPT !.orders = Append(db1.orders,
                    PendingOrder(oid, code, side, quantity, price))]

\* OrderService.create_limit_order; current_price = NoPrice is None
create_limit_order(db, snap, code, side, quantity, price, current_price) ==
    LET total_amount == TotalAmount(price, quantity)
        fee == Fee(total_amount)
        total_cost == total_amount + fee
    IN  IF ~ validate_price(code, price)
        THEN [err |-> "InvalidPrice", db |-> db]
        ELSE IF current_price # NoPrice
                /\ ~ validate_price_against_market(price, current_price)
        THEN [err |-> "PriceDeviation", db |-> db]
        ELSE IF current_price # NoPrice
                /\ ShouldExecuteImmediately(side, price, current_price)
        THEN create_market_order(db, snap, code, side, quantity, current_price)
        ELSE IF side = "buy"
        THEN IF snap.balance < total_cost
             THEN [err |-> "InsufficientBalance", db |-> db]
             ELSE IF ~ BalanceGuard(db.balance, total_cost)
             THEN [err |-> "InsufficientBalanceConcurrent", db |-> db]
             ELSE [err |-> "ok",
                   db |-> LimitWrites(db, code, side, quantity, price)]
        ELSE IF snap.pos.id = 0 \/ snap.pos.quantity < quantity
             THEN [err |-> "InsufficientPosition", db |-> db]
             ELSE IF ~ PositionGuard(db.positions[code], snap.pos.id, quantity)
             THEN [err |-> "InsufficientPositionConcurrent", db |-> db]
             ELSE [err |-> "ok",
                   db |-> LimitWrites(db, code, side, quantity, price)]

\* cancel_order without its two checks
CancelAlwaysAllowed(status, order_type) == "ok"

\* cancel_order: the two checks on the loaded Order object
CancelAllowed(status, order_type) ==
    IF status # "pending" THEN "NotPending"
    ELSE IF order_type # "limit" THEN "NotLimit"
    ELSE "ok"

\* the coin refund of cancel_order with the UPDATE alone, without the INSERT
\* for a missing row
RestoreByUpdateOnly(db, code, quantity, price) ==
    LET row == db.positions[code]
    IN  IF row.id # 0
        THEN [db EXCEPT !.positions[code].quantity = row.quantity + quantity]
        ELSE db

\* cancel_order: UPDATE positions SET quantity = quantity + order.quantity;
\* 0 rows -> INSERT ... ON CONFLICT DO UPDATE quantity only
RestorePosition(db, code, quantity, price) ==
    LET row == db.positions[code]
    IN  IF row.id # 0
        THEN [db EXCEPT !.positions[code].quantity = row.quantity + quantity]
        ELSE [db EXCEPT !.positions[code] =
                    [id |-> db.posSeq + 1, quantity |-> quantity,
                     avg_buy_price |-> price],
                 !.posSeq = db.posSeq + 1]

\* cancel_order marking the order cancelled without giving the reservation
\* back
CancelWithoutRefund(db, loaded) ==
    LET chk == CancelAllowed(loaded.status, loaded.order_type)
    IN  IF chk # "ok"
        THEN [err |-> chk, db |-> db]
        ELSE [err |-> "ok",
              db |-> [db EXCEPT !.orders[loaded.id] =
                          [db.orders[loaded.id] EXCEPT
                              !.status = "cancelled",
                              !.cancelled_at = TRUE]]]

\* flush of cancel_order: UPDATE orders SET status, cancelled_at WHERE id
FlushCancelled(o) == [o EXCEPT !.status = "cancelled", !.cancelled_at = TRUE]

\* OrderService.cancel_order; loaded is the Order object as it was SELECTed
cancel_order(db, loaded) ==
    LET chk == CancelAllowed(loaded.status, loaded.order_type)
        total_amount == TotalAmount(loaded.price, loaded.quantity)
        fee == Fee(total_amount)
        db1 == IF loaded.side = "buy"
               THEN [db EXCEPT !.balance = db.balance + (total_amount + fee)]
               ELSE RestorePosition(db, loaded.code, loaded.quantity,
                                    loaded.price)
    IN  IF chk # "ok"
        THEN [err |-> chk, db |-> db]
        ELSE [err |-> "ok",
              db |-> [db1 EXCEPT !.orders[loaded.id] =
                            FlushCancelled(db1.orders[loaded.id])]]

\* the flush of execute_limit_order without the fee column
FlushFilledWithoutFee(o, quantity, execution_price, fee) ==
    [o EXCEPT !.status = "filled", !.filled_quantity = quantity,
              !.filled_price = execution_price, !.filled_at = TRUE]

\* flush of execute_limit_order: UPDATE orders SET status, filled_quantity,
\* filled_price, fee, filled_at WHERE id
FlushFilled(o, quantity, execution_price, fee) ==
    [o EXCEPT !.status = "filled", !.filled_quantity = quantity,
              !.filled_price = execution_price, !.fee = fee,
              !.filled_at = TRUE]

\* OrderService.execute_limit_order; loaded is the Order object as the
\* matching engine SELECTed it
execute_limit_order(db, loaded, execution_price) ==
    LET total_amount == TotalAmount(execution_price, loaded.quantity)
        fee == Fee(total_amount)
        price_diff == loaded.price - execution_price
        dbu == upsert_position(db, loaded.code, loaded.quantity,
                               execution_price)
        db1 == IF loaded.side = "buy"
               THEN IF price_diff > 0
                    THEN [dbu EXCEPT !.balance =
                              dbu.balance + price_diff * loaded.quantity]
                    ELSE dbu
               ELSE cleanup_zero_positions(
                        [db EXCEPT !.balance = db.balance
                                               + (total_amount - fee)],
                        loaded.code)
        db2 == [db1 EXCEPT !.orders[loaded.id] =
                    FlushFilled(db1.orders[loaded.id], loaded.quantity,
                                execution_price, fee)]
    IN  IF ~ validate_price(loaded.code, execution_price)
        THEN [err |-> "ValueError", db |-> db]
        ELSE [err |-> "ok",
              db |-> [db2 EXCEPT !.trades = Append(db2.trades,
                         TradeRow(loaded.id, loaded.code, loaded.side,
                                  execution_price, loaded.quantity,
                                  total_amount, fee))]]

\* MatchingEngine._get_pending_buy_orders / _get_pending_sell_orders:
\* the ids of the eligible orders, ORDER BY created_at
RECURSIVE SelectPending(_, _, _, _, _)
SelectPending(orders, i, code, side, current_price) ==
    IF i > Len(orders) THEN << >>
    ELSE LET o == orders[i]
             hit == /\ o.code = code
                    /\ o.status = "pending"
                    /\ o.order_type = "limit"
                    /\ o.side = side
                    /\ IF side = "buy" THEN o.price >= current_price
                                       ELSE o.price <= current_price
         IN  (IF hit THEN <<o>> ELSE << >>)
             \o SelectPending(orders, i + 1, code, side, current_price)

(* ---------------------------------------------------------------------- *)
(* Cache: duplicate suppression and the per-user lock                      *)
(* ---------------------------------------------------------------------- *)
\* a SET without NX: the key is stored and is_new is always TRUE
set_with_ttl(connected, keys, key) ==
    [is_new |-> TRUE, keys |-> IF connected THEN keys \cup {key} ELSE keys]

\* RedisCache.setnx_with_ttl: [is_new, keys]; not connected -> TRUE (failsafe)
setnx_with_ttl(connected, keys, key) ==
    IF ~ connected THEN [is_new |-> TRUE, keys |-> keys]
    ELSE [is_new |-> key \notin keys, keys |-> keys \cup {key}]

\* create_order: cache_key of the duplicate check
CacheKey(code, side, order_type, quantity, price, key) ==
    IF key # NoKey THEN <<"idempotency", key>>
    ELSE <<"hash", code, side, order_type, quantity, price>>

\* acquire_lock with a SET without NX: the key is overwritten
AcquireWithoutNx(connected, holder, r) ==
    IF ~ connected THEN [token |-> TRUE, holder |-> holder]
    ELSE [token |-> TRUE, holder |-> r]

\* RedisCache.acquire_lock: the new holder of lock:order:{user}, or the
\* request goes on with a dummy token when Redis is not connected
acquire_lock(connected, holder, r) ==
    IF ~ connected THEN [token |-> TRUE, holder |-> holder]
    ELSE IF holder = NoHolder THEN [token |-> TRUE, holder |-> r]
    ELSE [token |-> FALSE, holder |-> holder]

\* release_lock that leaves the key alone
ReleaseNothing(connected, holder, r) == holder

\* release_lock with a DEL that does not look at the value of the key
ReleaseWithoutCompare(connected, holder, r) ==
    IF connected THEN NoHolder ELSE holder

\* RedisCache.release_lock: compare-and-delete
release_lock(connected, holder, r) ==
    IF connected /\ holder = r THEN NoHolder ELSE holder

(* ---------------------------------------------------------------------- *)
(* State                                                                   *)
(* ---------------------------------------------------------------------- *)
VARIABLES
    scn,        \* the competition joined: code traded, initial_balance
    redisUp,    \* RedisCache._connected
    balance,    \* Participant.balance
    positions,  \* code -> Position row or NoRow
    posSeq,     \* number of Position rows inserted so far (row identity)
    orders,     \* Order rows, in created_at order; id = index
    trades,     \* Trade rows
    cacheKeys,  \* keys order:idempotency:* and order:hash:* alive in Redis
    lock,       \* holder of lock:order:{user}
    pc,         \* request handler -> position in its handler
    req,        \* request handler -> its current (or last) request
    snap,       \* request handler -> rows it has SELECTed
    res,        \* outcome of the request that finished last
    eng,        \* matching engine: position in process_ticker, loaded orders
    nPost, nCancel, nTick,  \* requests and ticks so far
    hist,       \* history: facts about past requests the claims refer to
    session,    \* the AsyncSession of the last tick: how it ended
    lockToken,  \* value stored under lock:order:{user}; NoHolder: none
    myToken,    \* request handler -> lock_token of its distributed_lock
    lpc,        \* request handler -> position in distributed_lock
    nToken,     \* uuid4 tokens drawn so far
    lapsed,     \* tokens whose key reached its TTL while it was stored
    released,   \* release_lock calls: <<token passed, value of the key>>
    now,        \* datetime.utcnow()
    comps,      \* competition -> its row: status, start_time, end_time
    member,     \* competitions the user has a Participant row in
    hpc,        \* request handler -> position in join_competition or in
                \* create_order, and what it has read
    placed,     \* the order created last: the competition checked, the
                \* time and the status read by the check, the competition
                \* of the participant used
    last,       \* the statuses the last lifecycle run found, NoRun otherwise
    postgres_available,  \* the global set by lifespan
    connected_clients,   \* the viewers in the set connected_clients
    subscriptions,       \* viewer -> its codes, for the keys of the dict
    viewer,     \* viewer -> "absent", "open", "broken" (a send to it
                \* fails; its endpoint has not ended yet) or "gone"
    ing,        \* upbit_websocket_handler: position, current tick
    bc,         \* the running broadcast: its set iterator and locals
    delivered,  \* <<viewer, number of the tick, message>> sent by the
                \* last broadcast
    received,   \* the ticks read from the upstream feed, in order
    offered,    \* the ticks passed to process_ticker_for_matching
    tx,         \* the AsyncSession of a POST /orders executed statement by
                \* statement: position, and the rows as its transaction
                \* sees them
    buffer,     \* price.py: the rows appended and not yet taken
    thr,        \* price.py: thread -> position, and the rows it has taken
    handed,     \* row -> number of insert calls it was passed to
    archived,   \* rows of the inserts that returned
    lost,       \* rows of the inserts that raised
    nRow,       \* rows appended so far
    wsconn,     \* price.py: the connection of run_forever
    main,       \* price.py: the main thread
    stop_event, \* price.py: stop_event.is_set()
    apiconn,    \* api.py: the connection of upbit_websocket_handler
    fee_rate    \* competition -> Competition.fee_rate, in 1/FeeDen

batchVars == <<session>>

leaseVars == <<lockToken, myToken, lpc, nToken, lapsed, released>>

\* the state outside the order handlers and the matching of one tick
compVars == <<now, comps, member, hpc, placed, last>>

\* the ingest and fan-out pipeline
feedVars == <<postgres_available, connected_clients, subscriptions, viewer,
              ing, bc, delivered, received, offered>>

txVars == <<tx>>

\* the archive writer (price.py) and the connection of the API's ingestor
archVars == <<buffer, thr, handed, archived, lost, nRow, wsconn, main,
              stop_event, apiconn>>

\* the fee_rate column of the Competition rows
rateVars == <<fee_rate>>

auxVars == <<batchVars, leaseVars, compVars, feedVars, txVars, archVars, rateVars>>

auxNotBatch == <<leaseVars, compVars, feedVars, txVars, archVars, rateVars>>

auxNotLease == <<batchVars, compVars, feedVars, txVars, archVars, rateVars>>

auxNotComp == <<batchVars, leaseVars, feedVars, txVars, archVars, rateVars>>

auxNotFeed == <<batchVars, leaseVars, compVars, txVars, archVars, rateVars>>

auxNotTx == <<batchVars, leaseVars, compVars, feedVars, archVars, rateVars>>

auxNotArch == <<batchVars, leaseVars, compVars, feedVars, txVars, rateVars>>

auxNotRate == <<batchVars, leaseVars, compVars, feedVars, txVars, archVars>>

\* all but the Competition rows
auxNotCompRate == <<batchVars, leaseVars, feedVars, txVars, archVars>>

vars == <<scn, redisUp, balance, positions, posSeq, orders, trades, cacheKeys,
          lock, pc, req, snap, res, eng, nPost, nCancel, nTick, hist,
          auxVars>>

\* the state of the order handlers and of the matching engine
orderVars == <<scn, redisUp, balance, positions, posSeq, orders, trades,
               cacheKeys, lock, pc, req, snap, res, eng, nPost, nCancel,
               nTick, hist>>

storeVars == <<balance, positions, posSeq, orders, trades>>

DB == [balance |-> balance, positions |-> positions, posSeq |-> posSeq,
       orders |-> orders, trades |-> trades]

Commit(d) ==
    /\ balance' = d.balance
    /\ positions' = d.positions
    /\ posSeq' = d.posSeq
    /\ orders' = d.orders
    /\ trades' = d.trades

(* ---------------------------------------------------------------------- *)
(* Inputs                                                                  *)
(* ---------------------------------------------------------------------- *)
\* what the requests of a behaviour are drawn from: the code traded, the
\* balance the participant joined with, OrderCreate.quantity (any float is
\* accepted, a negative one too), OrderCreate.price of a limit order, the
\* current_price of the query string, Archive.latest (NoPrice: none), the
\* trade_price of a tick, the idempotency keys
\* held: the participant has already bought that quantity at the server
\* price with a market order
ConcurrentScenarios ==
    { [code |-> "KRW-BTC", initial_balance |-> 1000500, held |-> h,
       quantities |-> {100},
       limit_prices |-> [buy |-> {9500}, sell |-> {10500}],
       client_prices |-> {10000}, server_prices |-> {10000},
       tick_prices |-> {9400, 10600}, keys |-> {NoKey, "abc"}]
      : h \in {0, 100} }

\* the store after join_competition, and after the market buy of sc.held
JoinedDB(sc) ==
    LET joined == [balance |-> sc.initial_balance,
                   positions |-> [c \in Codes |-> NoRow], posSeq |-> 0,
                   orders |-> << >>, trades |-> << >>]
    IN  IF sc.held = 0 THEN joined
        ELSE MarketWrites(joined, sc.code, "buy", sc.held, 10000)

NoOrder == PendingOrder(0, "", "", 0, NoPrice)

NoReq == [op |-> "none", code |-> "", side |-> "", order_type |-> "",
          quantity |-> 0, price |-> NoPrice, client_price |-> NoPrice,
          server_price |-> NoPrice, validated_price |-> NoPrice,
          key |-> NoKey]

NoSnap == [balance |-> 0, pos |-> NoRow, order |-> NoOrder]

\* history: every POST so far was a buy costing exactly the balance joined
\* with; the calls that carried an idempotency key, the orders they created,
\* the 409 they were answered, whether the key has expired in between
NoHist == [allBuyV |-> TRUE, keyCalls |-> 0, keyOrders |-> 0, keyDups |-> 0,
           keyExpired |-> FALSE]

EngIdle == [pc |-> "idle", code |-> "", price |-> NoPrice, queue |-> << >>]

\* a session on which nothing has run: no statement has failed (failed: the
\* order whose execution got the store error), no order's execution has
\* raised, nothing is uncommitted
NoSession ==
    [aborted |-> FALSE, failed |-> 0, raised |-> {}, dirty |-> FALSE]

\* the competitions of a run and their times, as create_competition
\* stores them: status 'pending', start_time < end_time
Comps == {"A", "B"}

CompetitionRows ==
    [c \in Comps |->
        IF c = "A"
        THEN [status |-> "pending", start_time |-> 0, end_time |-> 1]
        ELSE [status |-> "pending", start_time |-> 1, end_time |-> 2]]

HandlerIdle == [pc |-> "idle", comp |-> "", at |-> 0, status |-> "",
                out |-> "none"]

NoPlaced == [comp |-> "", checked |-> "", at |-> 0, status |-> ""]

\* the last step was not a run of the lifecycle task
NoRun == [c \in Comps |-> "none"]

\* the viewers of a run
Viewers == {"v1", "v2", "v3"}

NoViewer == "none"

NoTick == [code |-> "", trade_price |-> NoPrice]

\* upbit_websocket_handler before lifespan has started it
IngestorBoot == [pc |-> "boot", tick |-> NoTick]

\* no broadcast is running
NoBroadcast == [used |-> 0, todo |-> {}, disconnected |-> {},
                cur |-> NoViewer, stable |-> {}]

\* a session on which no statement has run
NoTx == [pc |-> "idle",
         db |-> [balance |-> 0, positions |-> [c \in Codes |-> NoRow],
                 posSeq |-> 0, orders |-> << >>, trades |-> << >>]]

\* the threads of price.py that call flush_buffer: the thread of
\* run_forever, which runs on_message, and flush_thread
Threads == {"ws", "flush"}

Rows == 1..MaxRows

ThreadIdle == [pc |-> "idle", rows |-> << >>]

AuxInit ==
    /\ fee_rate = [c \in Comps |-> FeeNum]
    /\ buffer = << >>
    /\ thr = [t \in Threads |-> ThreadIdle]
    /\ handed = [x \in Rows |-> 0]
    /\ archived = {}
    /\ lost = {}
    /\ nRow = 0
    /\ wsconn = "connecting"
    /\ main = "run_once"
    /\ stop_event = FALSE
    /\ apiconn = "connecting"
    /\ tx = NoTx
    /\ postgres_available = FALSE
    /\ connected_clients = {}
    /\ subscriptions = [v \in {} |-> {}]
    /\ viewer = [v \in Viewers |-> "absent"]
    /\ ing = IngestorBoot
    /\ bc = NoBroadcast
    /\ delivered = {}
    /\ received = << >>
    /\ offered = << >>
    /\ now = 0
    /\ comps = CompetitionRows
    /\ member = {}
    /\ hpc = [r \in Procs |-> HandlerIdle]
    /\ placed = NoPlaced
    /\ last = NoRun
    /\ session = NoSession
    /\ lockToken = NoHolder
    /\ myToken = [r \in Procs |-> NoHolder]
    /\ lpc = [r \in Procs |-> "idle"]
    /\ nToken = 0
    /\ lapsed = {}
    /\ released = {}

Init ==
    /\ scn \in ConcurrentScenarios
    /\ redisUp \in BOOLEAN
    /\ balance = JoinedDB(scn).balance
    /\ positions = JoinedDB(scn).positions
    /\ posSeq = JoinedDB(scn).posSeq
    /\ orders = JoinedDB(scn).orders
    /\ trades = JoinedDB(scn).trades
    /\ cacheKeys = {}
    /\ lock = NoHolder
    /\ pc = [r \in Procs |-> "idle"]
    /\ req = [r \in Procs |-> NoReq]
    /\ snap = [r \in Procs |-> NoSnap]
    /\ res = "none"
    /\ eng = EngIdle
    /\ nPost = 0 /\ nCancel = 0 /\ nTick = 0
    /\ hist = NoHist
    /\ AuxInit

(* ---------------------------------------------------------------------- *)
(* POST /orders                                                            *)
(* ---------------------------------------------------------------------- *)
\* create_order up to the lock: duplicate check, price check, price sourcing
CreateOrderChecks(is_new, order_type, price, client_price, server_price) ==
    IF ~ is_new THEN "DuplicateOrder"
    ELSE IF order_type = "limit" /\ price = NoPrice THEN "PriceRequired"
    ELSE IF server_price # NoPrice
            /\ ~ validate_client_price(client_price, server_price)
    THEN "PriceMismatch"
    ELSE "running"

\* _execute_order: dispatch on order_type with validated_price
ExecuteOrder(db, sn, rq) ==
    IF rq.order_type = "market"
    THEN create_market_order(db, sn, rq.code, rq.side, rq.quantity,
                             rq.validated_price)
    ELSE create_limit_order(db, sn, rq.code, rq.side, rq.quantity,
                            rq.price, rq.validated_price)

\* total + fee of a buy that fills at once
BuyCost(price, quantity) ==
    TotalAmount(price, quantity) + Fee(TotalAmount(price, quantity))

\* a buy that fills at once (market, or limit crossing the market)
ImmediateBuy(side, order_type, price, validated_price) ==
    /\ side = "buy"
    /\ \/ order_type = "market"
       \/ order_type = "limit" /\ price # NoPrice /\ price >= validated_price

HistStart(h, side, order_type, quantity, price, validated_price, key, outcome) ==
    [h EXCEPT
       !.allBuyV = h.allBuyV
                   /\ ImmediateBuy(side, order_type, price, validated_price)
                   /\ BuyCost(validated_price, quantity) = scn.initial_balance,
       !.keyCalls = IF key # NoKey THEN h.keyCalls + 1 ELSE h.keyCalls,
       !.keyDups = IF key # NoKey /\ outcome = "DuplicateOrder"
                   THEN h.keyDups + 1 ELSE h.keyDups]

HistExec(h, key, outcome) ==
    [h EXCEPT !.keyOrders = IF key # NoKey /\ outcome = "ok"
                            THEN h.keyOrders + 1 ELSE h.keyOrders]

\* OrderCreate and current_price as create_order holds them
Request(code, side, order_type, quantity, price, client_price, server_price, key) ==
    [op |-> "post", code |-> code, side |-> side, order_type |-> order_type,
     quantity |-> quantity, price |-> price, client_price |-> client_price,
     server_price |-> server_price,
     validated_price |-> ValidatedPrice(client_price, server_price),
     key |-> key]

\* the handlers are interchangeable: a request is served by the first idle one
Serves(r) ==
    /\ pc[r] = "idle"
    /\ \A q \in Procs : pc[q] = "idle" => r <= q

Finished(r, outcome) ==
    /\ pc' = [pc EXCEPT ![r] = "idle"]
    /\ res' = outcome
    /\ snap' = [snap EXCEPT ![r] = NoSnap]
    /\ req' = [req EXCEPT ![r] = NoReq]

PostStart(r) ==
    /\ Serves(r)
    /\ nPost < MaxPosts
    /\ \E side \in Sides, order_type \in OrderTypes,
          quantity \in scn.quantities,
          client_price \in scn.client_prices,
          server_price \in scn.server_prices, key \in scn.keys,
          expired \in BOOLEAN :
       \E price \in IF order_type = "market" THEN {NoPrice}
                    ELSE scn.limit_prices[side] :
        LET code == scn.code
            ckey == CacheKey(code, side, order_type, quantity, price, key)
            \* the TTL of the key may have run out since it was set
            live == IF expired THEN cacheKeys \ {ckey} ELSE cacheKeys
            nx == setnx_with_ttl(redisUp, live, ckey)
            outcome == CreateOrderChecks(nx.is_new, order_type, price,
                                         client_price, server_price)
        IN  /\ expired => ckey \in cacheKeys
            /\ Exact(ValidatedPrice(client_price, server_price), quantity)
            /\ Exact(price, quantity)
            /\ cacheKeys' = nx.keys
            /\ IF outcome = "running"
               THEN /\ pc' = [pc EXCEPT ![r] = "lock"]
                    /\ req' = [req EXCEPT ![r] =
                          Request(code, side, order_type, quantity, price,
                                  client_price, server_price, key)]
                    /\ UNCHANGED <<snap, res>>
               ELSE Finished(r, outcome)
            /\ hist' = HistStart(
                  [hist EXCEPT !.keyExpired = @ \/ (expired /\ key # NoKey)],
                  side, order_type, quantity, price,
                  ValidatedPrice(client_price, server_price), key, outcome)
    /\ nPost' = nPost + 1
    /\ UNCHANGED <<auxVars, scn, redisUp, storeVars, lock, eng, nCancel, nTick>>

\* distributed_lock: the acquire_lock of the retry loop that succeeds; then
\* get_participant and get_position: the rows as committed now
PostLock(r) ==
    /\ pc[r] = "lock"
    /\ LET a == acquire_lock(redisUp, lock, r)
       IN  /\ a.token
           /\ lock' = a.holder
    /\ snap' = [snap EXCEPT ![r] =
                  [balance |-> balance, pos |-> positions[req[r].code],
                   order |-> NoOrder]]
    /\ pc' = [pc EXCEPT ![r] = "exec"]
    /\ UNCHANGED <<auxVars, scn, redisUp, storeVars, cacheKeys, req, res, eng,
                   nPost, nCancel, nTick, hist>>

\* distributed_lock: wait_timeout elapsed while another request holds the lock
LockTimeout(r) ==
    /\ pc[r] = "lock"
    /\ ~ acquire_lock(redisUp, lock, r).token
    /\ Finished(r, "ContentionTimeout")
    /\ UNCHANGED <<auxVars, scn, redisUp, storeVars, cacheKeys, lock, eng,
                   nPost, nCancel, nTick, hist>>

\* create_market_order / create_limit_order from the quick check to COMMIT
\* (or the rollback of a rejected order), then release_lock
PostExec(r) ==
    /\ pc[r] = "exec"
    /\ LET out == ExecuteOrder(DB, snap[r], req[r])
       IN  /\ Commit(out.db)
           /\ Finished(r, out.err)
           /\ hist' = HistExec(hist, req[r].key, out.err)
    /\ lock' = release_lock(redisUp, lock, r)
    /\ UNCHANGED <<auxVars, scn, redisUp, cacheKeys, eng, nPost, nCancel, nTick>>

(* ---------------------------------------------------------------------- *)
(* DELETE /orders/{order_id}                                               *)
(* ---------------------------------------------------------------------- *)
\* routers/trading.cancel_order: SELECT the Order
CancelLoad(r) ==
    /\ Serves(r)
    /\ nCancel < MaxCancels
    /\ \E oid \in 1..Len(orders) :
        /\ snap' = [snap EXCEPT ![r] = [NoSnap EXCEPT !.order = orders[oid]]]
        /\ req' = [req EXCEPT ![r] = [NoReq EXCEPT !.op = "cancel",
                                             !.code = orders[oid].code]]
    /\ pc' = [pc EXCEPT ![r] = "cancel"]
    /\ nCancel' = nCancel + 1
    /\ UNCHANGED <<auxVars, scn, redisUp, storeVars, cacheKeys, lock, res, eng, nPost,
                   nTick, hist>>

\* OrderService.cancel_order on the loaded Order, to COMMIT
CancelExec(r) ==
    /\ pc[r] = "cancel"
    /\ LET out == cancel_order(DB, snap[r].order)
       IN  /\ Commit(out.db)
           /\ Finished(r, out.err)
    /\ UNCHANGED <<auxVars, scn, redisUp, cacheKeys, lock, eng, nPost, nCancel, nTick,
                   hist>>

(* ---------------------------------------------------------------------- *)
(* Matching engine                                                         *)
(* ---------------------------------------------------------------------- *)
\* process_ticker: a tick arrives, _get_pending_buy_orders
Tick ==
    /\ eng.pc = "idle"
    /\ nTick < MaxTicks
    /\ \E p \in scn.tick_prices :
        eng' = [pc |-> "buys", code |-> scn.code, price |-> p,
                queue |-> SelectPending(orders, 1, scn.code, "buy", p)]
    /\ nTick' = nTick + 1
    /\ UNCHANGED <<auxVars, scn, redisUp, storeVars, cacheKeys, lock, pc, req, snap,
                   res, nPost, nCancel, hist>>

\* process_ticker: execute_limit_order on the next loaded order, to COMMIT;
\* an exception is caught and the order skipped; after the last sell order
\* process_ticker returns
EngineFill ==
    /\ eng.pc \in {"buys", "sells"}
    /\ eng.queue # << >>
    /\ LET out == execute_limit_order(DB, Head(eng.queue), eng.price)
       IN  Commit(out.db)
    /\ eng' = IF eng.pc = "sells" /\ Tail(eng.queue) = << >>
              THEN EngIdle
              ELSE [eng EXCEPT !.queue = Tail(eng.queue)]
    /\ UNCHANGED <<auxVars, scn, redisUp, cacheKeys, lock, pc, req, snap, res, nPost,
                   nCancel, nTick, hist>>

\* process_ticker: the buy orders are done, _get_pending_sell_orders;
\* with no eligible sell order process_ticker returns
EngineSelectSells ==
    /\ eng.pc = "buys"
    /\ eng.queue = << >>
    /\ LET sell_orders == SelectPending(orders, 1, eng.code, "sell",
                                        eng.price)
       IN  eng' = IF sell_orders = << >> THEN EngIdle
                  ELSE [eng EXCEPT !.pc = "sells", !.queue = sell_orders]
    /\ UNCHANGED <<auxVars, scn, redisUp, storeVars, cacheKeys, lock, pc, req, snap,
                   res, nPost, nCancel, nTick, hist>>

Next ==
    \/ \E r \in Procs : PostStart(r)
    \/ \E r \in Procs : PostLock(r)
    \/ \E r \in Procs : LockTimeout(r)
    \/ \E r \in Procs : PostExec(r)
    \/ \E r \in Procs : CancelLoad(r)
    \/ \E r \in Procs : CancelExec(r)
    \/ Tick
    \/ EngineFill
    \/ EngineSelectSells

Spec == Init /\ [][Next]_vars

(* ---------------------------------------------------------------------- *)
(* Serial executions: every request and every tick runs to its end before  *)
(* the next one starts, and requests are further apart than the TTL of the *)
(* duplicate-suppression keys.  req[1], snap[1] and res keep the last       *)
(* request, the rows it loaded and its outcome.                            *)
(* ---------------------------------------------------------------------- *)
SerialScenarios ==
    { \* the seed account: 1,000,000 KRW, BTC at 100,000,000
      [code |-> "KRW-BTC", initial_balance |-> 1000000, held |-> 0,
       quantities |-> {-100, 50, 100},
       limit_prices |-> [buy |-> {9500, 10500}, sell |-> {9500, 10500}],
       client_prices |-> {10000}, server_prices |-> {10000},
       ticks |-> {<<"KRW-BTC", 9400>>, <<"KRW-BTC", 10600>>},
       keys |-> {NoKey}],
      \* client prices at, 10% and 20% above the server price, if any
      [code |-> "KRW-BTC", initial_balance |-> 1000000, held |-> 0,
       quantities |-> {50},
       limit_prices |-> [buy |-> {10400}, sell |-> {10400}],
       client_prices |-> {10000, 11000, 12000},
       server_prices |-> {NoPrice, 10000},
       ticks |-> {<<"KRW-BTC", 9400>>, <<"KRW-BTC", 10600>>},
       keys |-> {NoKey}],
      [code |-> "KRW-ETH", initial_balance |-> 1000000, held |-> 0,
       quantities |-> {1000},
       limit_prices |-> [buy |-> {400, 450, 500}, sell |-> {500, 550}],
       client_prices |-> {500}, server_prices |-> {500},
       ticks |-> {<<"KRW-ETH", 440>>, <<"KRW-ETH", 560>>},
       keys |-> {NoKey}],
      \* a participant holding 0.01 BTC with resting orders on both sides of
      \* the market; a tick of another code arrives too
      [code |-> "KRW-BTC", initial_balance |-> 2000500, held |-> 100,
       quantities |-> {50},
       limit_prices |-> [buy |-> {9200, 9600}, sell |-> {10400}],
       client_prices |-> {10000}, server_prices |-> {10000},
       ticks |-> {<<"KRW-BTC", 9400>>, <<"KRW-BTC", 10600>>,
                  <<"KRW-ETH", 440>>},
       keys |-> {NoKey}],
      \* the market moves between the orders: a sell resting at 10000 placed
      \* at 9600, a buy resting at 10000 placed at 10400, a tick at 10000
      [code |-> "KRW-BTC", initial_balance |-> 2000500, held |-> 100,
       quantities |-> {50},
       limit_prices |-> [buy |-> {10000}, sell |-> {10000}],
       client_prices |-> {9600, 10400}, server_prices |-> {NoPrice},
       ticks |-> {<<"KRW-BTC", 10000>>},
       keys |-> {NoKey}] }

SerialInit ==
    /\ scn \in SerialScenarios
    /\ redisUp \in BOOLEAN
    /\ balance = JoinedDB(scn).balance
    /\ positions = JoinedDB(scn).positions
    /\ posSeq = JoinedDB(scn).posSeq
    /\ orders = JoinedDB(scn).orders
    /\ trades = JoinedDB(scn).trades
    /\ cacheKeys = {}
    /\ lock = NoHolder
    /\ pc = [r \in Procs |-> "idle"]
    /\ req = [r \in Procs |-> NoReq]
    /\ snap = [r \in Procs |-> NoSnap]
    /\ res = "none"
    /\ eng = EngIdle
    /\ nPost = 0 /\ nCancel = 0 /\ nTick = 0
    /\ hist = NoHist
    /\ AuxInit

\* create_order from the duplicate check to the response
SerialPost ==
    /\ nPost < MaxPosts
    /\ \E side \in Sides, order_type \in OrderTypes,
          quantity \in scn.quantities,
          client_price \in scn.client_prices,
          server_price \in scn.server_prices, key \in scn.keys :
       \E price \in IF order_type = "market" THEN {NoPrice}
                    ELSE scn.limit_prices[side] :
        LET code == scn.code
            ckey == CacheKey(code, side, order_type, quantity, price, key)
            nx == setnx_with_ttl(redisUp, {}, ckey)
            outcome == CreateOrderChecks(nx.is_new, order_type, price,
                                         client_price, server_price)
            rq == Request(code, side, order_type, quantity, price,
                          client_price, server_price, key)
            loaded == [balance |-> balance, pos |-> positions[code],
                       order |-> NoOrder]
            out == ExecuteOrder(DB, loaded, rq)
        IN  /\ Exact(rq.validated_price, quantity)
            /\ Exact(price, quantity)
            /\ cacheKeys' = nx.keys
            /\ req' = [req EXCEPT ![1] = rq]
            /\ IF outcome = "running"
               THEN /\ acquire_lock(redisUp, lock, 1).token
                    /\ snap' = [snap EXCEPT ![1] = loaded]
                    /\ Commit(out.db)
                    /\ res' = out.err
               ELSE /\ snap' = [snap EXCEPT ![1] = NoSnap]
                    /\ UNCHANGED storeVars
                    /\ res' = outcome
    /\ nPost' = nPost + 1
    /\ UNCHANGED <<auxVars, scn, redisUp, lock, pc, eng, nCancel, nTick, hist>>

\* DELETE /orders/{order_id} from the SELECT to the response
SerialCancel ==
    /\ nCancel < MaxSerialCancels
    /\ \E oid \in 1..Len(orders) :
        LET out == cancel_order(DB, orders[oid])
        IN  /\ snap' = [snap EXCEPT ![1] = [NoSnap EXCEPT !.order = orders[oid]]]
            /\ req' = [req EXCEPT ![1] = [NoReq EXCEPT !.op = "cancel",
                                                 !.code = orders[oid].code]]
            /\ Commit(out.db)
            /\ res' = out.err
    /\ nCancel' = nCancel + 1
    /\ UNCHANGED <<auxVars, scn, redisUp, cacheKeys, lock, pc, eng, nPost, nTick, hist>>

\* process_ticker: the loop over the loaded orders
RECURSIVE FillAll(_, _, _)
FillAll(db, queue, current_price) ==
    IF queue = << >> THEN db
    ELSE FillAll(execute_limit_order(db, Head(queue), current_price).db,
                 Tail(queue), current_price)

\* process_ticker with the pass over the buy orders only
ProcessBuysOnly(db, code, current_price) ==
    FillAll(db, SelectPending(db.orders, 1, code, "buy", current_price),
            current_price)

\* process_ticker with the pass over the sell orders before the pass over
\* the buy orders
ProcessSellsFirst(db, code, current_price) ==
    LET sell_orders == SelectPending(db.orders, 1, code, "sell",
                                     current_price)
        db1 == FillAll(db, sell_orders, current_price)
        buy_orders == SelectPending(db1.orders, 1, code, "buy",
                                    current_price)
    IN  FillAll(db1, buy_orders, current_price)

\* MatchingEngine.process_ticker from the tick to its return
process_ticker(db, code, current_price) ==
    LET buy_orders == SelectPending(db.orders, 1, code, "buy", current_price)
        db1 == FillAll(db, buy_orders, current_price)
        sell_orders == SelectPending(db1.orders, 1, code, "sell",
                                     current_price)
    IN  FillAll(db1, sell_orders, current_price)

SerialTick ==
    /\ nTick < MaxTicks
    /\ \E t \in scn.ticks :
        /\ Commit(process_ticker(DB, t[1], t[2]))
        /\ req' = [req EXCEPT ![1] = [NoReq EXCEPT !.op = "tick",
                                             !.code = t[1],
                                             !.price = t[2]]]
    /\ snap' = [snap EXCEPT ![1] = NoSnap]
    /\ res' = "none"
    /\ nTick' = nTick + 1
    /\ UNCHANGED <<auxVars, scn, redisUp, cacheKeys, lock, pc, eng, nPost, nCancel,
                   hist>>

SerialNext ==
    \/ SerialPost
    \/ SerialCancel
    \/ SerialTick

SerialSpec == SerialInit /\ [][SerialNext]_vars

TypeOK ==
    /\ balance \in Int
    /\ lock \in Procs \cup {NoHolder}
    /\ \A r \in Procs : pc[r] \in {"idle", "lock", "exec", "cancel"}

(* ---------------------------------------------------------------------- *)
(* Properties                                                              *)
(* ---------------------------------------------------------------------- *)
Quiescent == \A r \in Procs : pc[r] = "idle"

OrderIds == 1..Len(orders)

TradesOf(oid) == {i \in 1..Len(trades) : trades[i].order_id = oid}

\* C1: in every reachable state Participant.balance >= 0
C1_BalanceNonNegative == balance >= 0

\* C2 as stated: K >= 2 buys, each costing exactly the balance V, by the same
\* user: the requests that do not create the order are rejected with
\* insufficient funds or contention timeout, and once all have finished the
\* balance is 0 and exactly one Order and one Trade exist
C2_Original ==
    (scn.held = 0 /\ hist.allBuyV /\ nPost >= 1 /\ nCancel = 0) =>
        /\ res \in {"none", "ok", "InsufficientBalance",
                    "InsufficientBalanceConcurrent", "ContentionTimeout"}
        /\ (Quiescent /\ nPost >= 2) =>
              (balance = 0 /\ Len(orders) = 1 /\ Len(trades) = 1)

\* C2 amended: a request that does not create the order may also be
\* rejected as a duplicate (409) by the duplicate check that precedes the lock
C2_ExactlyOneBuy ==
    (scn.held = 0 /\ hist.allBuyV /\ nPost >= 1 /\ nCancel = 0) =>
        /\ res \in {"none", "ok", "InsufficientBalance",
                    "InsufficientBalanceConcurrent", "ContentionTimeout",
                    "DuplicateOrder"}
        /\ (Quiescent /\ nPost >= 2) =>
              (balance = 0 /\ Len(orders) = 1 /\ Len(trades) = 1)

\* C2 witness: two such buys have finished, one was rejected by the atomic
\* guard after its quick check had passed
C2_Witness ==
    /\ scn.held = 0 /\ hist.allBuyV /\ nPost >= 2 /\ nCancel = 0 /\ Quiescent
    /\ res = "InsufficientBalanceConcurrent"
    /\ balance = 0 /\ Len(orders) = 1

RECURSIVE SoldQuantity(_, _)
SoldQuantity(os, i) ==
    IF i > Len(os) THEN 0
    ELSE (IF os[i].side = "sell" /\ os[i].status # "cancelled"
          THEN os[i].quantity ELSE 0) + SoldQuantity(os, i + 1)

RECURSIVE BoughtQuantity(_, _)
BoughtQuantity(os, i) ==
    IF i > Len(os) THEN 0
    ELSE (IF os[i].side = "buy" /\ os[i].status = "filled"
          THEN os[i].quantity ELSE 0) + BoughtQuantity(os, i + 1)

\* C3: without the mutex (Redis not connected), with only order requests
\* running: the position never becomes negative and the quantities debited by
\* the accepted sells (market sells and limit-sell reservations) add up to no
\* more than the coin bought: every accepted sell is backed by coin
C3_NoOversell ==
    (~ redisUp /\ nCancel = 0 /\ nTick = 0) =>
        /\ positions[scn.code].quantity >= 0
        /\ SoldQuantity(orders, 1) + positions[scn.code].quantity
              = BoughtQuantity(orders, 1)

\* C3 witness: without the mutex a sell passed its quick check on a stale
\* position and was stopped by the atomic guard of the UPDATE
C3_Witness ==
    /\ ~ redisUp /\ nCancel = 0 /\ nTick = 0
    /\ res = "InsufficientPositionConcurrent"
    /\ SoldQuantity(orders, 1) > 0

\* C4: every filled Order has exactly one Trade, every Trade refers to a
\* filled Order, no order_id appears in two Trade rows
C4_TradeOrderBijection ==
    /\ \A i \in OrderIds :
          orders[i].status = "filled" => Cardinality(TradesOf(i)) = 1
    /\ \A t \in 1..Len(trades) :
          /\ trades[t].order_id \in OrderIds
          /\ orders[trades[t].order_id].status = "filled"
    /\ \A i \in OrderIds : Cardinality(TradesOf(i)) <= 1

\* C5: once an Order is filled or cancelled no step changes its status,
\* filled_price, filled_quantity, filled_at or cancelled_at
C5_TerminalOrdersFrozen ==
    [][\A i \in OrderIds :
          orders[i].status \in {"filled", "cancelled"} =>
              /\ orders'[i].status = orders[i].status
              /\ orders'[i].filled_price = orders[i].filled_price
              /\ orders'[i].filled_quantity = orders[i].filled_quantity
              /\ orders'[i].filled_at = orders[i].filled_at
              /\ orders'[i].cancelled_at = orders[i].cancelled_at]_vars

\* C6: the reservation of a limit order is released once: no order has both
\* been refunded by cancel_order (cancelled_at set) and been filled (a Trade)
C6_ReleasedOnce ==
    \A i \in OrderIds : ~ (orders[i].cancelled_at /\ TradesOf(i) # {})

\* C7 as stated: two calls with the same idempotency key inside the TTL
\* produce exactly one Order and all but the first are answered 409
C7_Original ==
    (hist.keyCalls >= 2 /\ ~ hist.keyExpired
     /\ \A r \in Procs : req[r].key = NoKey) =>
        (hist.keyOrders = 1 /\ hist.keyDups = hist.keyCalls - 1)

\* C7 amended: while Redis is connected, of the calls with the same
\* idempotency key inside the TTL all but the first are answered 409 and at
\* most one Order is created (none when the first call fails later)
C7_AtMostOneOrder ==
    (redisUp /\ ~ hist.keyExpired /\ hist.keyCalls >= 1) =>
        (hist.keyOrders <= 1 /\ hist.keyDups = hist.keyCalls - 1)

\* C7 witness: two calls with the key, the second answered 409, one Order
C7_Witness ==
    /\ redisUp /\ ~ hist.keyExpired
    /\ hist.keyCalls = 2 /\ hist.keyDups = 1 /\ hist.keyOrders = 1

\* the request and the outcome of the last POST /orders of the serial run
LastPost == req[1]

LastOrder == orders[Len(orders)]

Crossing(rq) ==
    /\ rq.op = "post" /\ rq.order_type = "limit"
    /\ \/ rq.side = "buy" /\ rq.price >= rq.validated_price
       \/ rq.side = "sell" /\ rq.price <= rq.validated_price

\* C9: an accepted limit order whose price crosses the market price m adds
\* one order, 'filled' with filled_price = m, and one Trade at m; the balance
\* and the position move by the amounts computed at m
C9_CrossingFillsAtMarket ==
    [][(nPost' = nPost + 1 /\ Crossing(req'[1]) /\ res' = "ok") =>
        LET rq == req'[1]
            m == rq.validated_price
            q == rq.quantity
            total == m * q
            fee == (total * 5) \div 10000
            held == positions[rq.code].quantity
            \* a sale that leaves no more than 0.0001 coin removes the row
            after == IF rq.side = "buy" THEN held + q
                     ELSE IF held - q <= 1 THEN 0 ELSE held - q
        IN  /\ Len(orders') = Len(orders) + 1
            /\ orders'[Len(orders')].status = "filled"
            /\ orders'[Len(orders')].filled_price = m
            /\ orders'[Len(orders')].filled_quantity = q
            /\ \A i \in 1..Len(orders) : orders'[i] = orders[i]
            /\ Len(trades') = Len(trades) + 1
            /\ trades'[Len(trades')].order_id = Len(orders')
            /\ trades'[Len(trades')].price = m
            /\ trades'[Len(trades')].total_amount = total
            /\ balance' = IF rq.side = "buy" THEN balance - (total + fee)
                          ELSE balance + (total - fee)
            /\ positions'[rq.code].quantity = after
       ]_vars

\* C9 witness: a limit buy at 10500 placed at market price 10000 has been
\* filled at 10000
C9_Witness ==
    /\ Crossing(LastPost) /\ LastPost.side = "buy"
    /\ LastPost.price = 10500 /\ LastPost.validated_price = 10000
    /\ res = "ok" /\ LastOrder.status = "filled"
    /\ LastOrder.filled_price = 10000

\* the limit buy {KRW-ETH, qty 0.1, price 4,000,000} at market 5,000,000
EthExample(rq) ==
    /\ rq.op = "post" /\ rq.code = "KRW-ETH" /\ rq.side = "buy"
    /\ rq.order_type = "limit" /\ rq.quantity = 1000 /\ rq.price = 400
    /\ rq.validated_price = 500

\* C10 as stated: the example order is escalated and fills at 5,000,000
C10_Original ==
    EthExample(LastPost) =>
        (res = "ok" /\ LastOrder.status = "filled"
         /\ LastOrder.filled_price = 500)

\* C10 amended: the example order is 20% below the market price, so it is
\* rejected with the price deviation error and nothing is written
C10_RejectedAsDeviation ==
    [][(nPost' = nPost + 1 /\ EthExample(req'[1])) =>
        (res' = "PriceDeviation" /\ UNCHANGED storeVars)]_vars

\* C10 witness: the example order has been answered with the deviation error
C10_Witness == EthExample(LastPost) /\ res = "PriceDeviation"

\* the limit buy {KRW-ETH, qty 0.1, price 4,500,000} at market 5,000,000
EthTenPercentBelow(rq) ==
    /\ rq.op = "post" /\ rq.code = "KRW-ETH" /\ rq.side = "buy"
    /\ rq.order_type = "limit" /\ rq.quantity = 1000 /\ rq.price = 450
    /\ rq.validated_price = 500

\* C11 as stated: the order priced exactly 10% below the market price is
\* rejected with the price deviation error
C11_Original == EthTenPercentBelow(LastPost) => res = "PriceDeviation"

\* C11 amended: a deviation of exactly 10% is inside the band: the order is
\* accepted and, the balance covering 450,225, stored pending with 450,225
\* reserved; no Trade is written and no position changes
C11_AcceptedAtTenPercent ==
    [][(nPost' = nPost + 1 /\ EthTenPercentBelow(req'[1])) =>
        IF balance >= 450225
        THEN /\ res' = "ok"
             /\ balance' = balance - 450225
             /\ Len(orders') = Len(orders) + 1
             /\ orders'[Len(orders')].status = "pending"
             /\ orders'[Len(orders')].price = 450
             /\ UNCHANGED <<positions, trades>>
        ELSE /\ res' = "InsufficientBalance"
             /\ UNCHANGED storeVars]_vars

\* C11 witness: the order rests and 450,225 of 1,000,000 are reserved
C11_Witness ==
    /\ EthTenPercentBelow(LastPost) /\ res = "ok"
    /\ LastOrder.status = "pending" /\ balance = 549775

\* the limit buy {KRW-BTC, qty 0.01, price 95,000,000} at market 100,000,000
SeedLimitBuy(rq) ==
    /\ rq.op = "post" /\ rq.code = "KRW-BTC" /\ rq.side = "buy"
    /\ rq.order_type = "limit" /\ rq.quantity = 100 /\ rq.price = 9500
    /\ rq.validated_price = 10000

\* C12 as stated: with balance 1,000,000 the seed limit buy is stored
\* pending and reserves 950,500
C12_Original ==
    (SeedLimitBuy(LastPost) /\ snap[1].balance = 1000000) =>
        (res = "ok" /\ LastOrder.status = "pending" /\ balance = 49500)

\* what a tick at price e credits to the balance: (l - e) * qty for each
\* eligible pending buy, e * qty less the fee for each eligible pending sell
RECURSIVE TickCredit(_, _, _, _)
TickCredit(os, i, code, e) ==
    IF i > Len(os) THEN 0
    ELSE LET o == os[i]
             resting == o.status = "pending" /\ o.order_type = "limit"
                        /\ o.code = code
         IN  (IF resting /\ o.side = "buy" /\ o.price >= e
              THEN (o.price - e) * o.quantity
              ELSE IF resting /\ o.side = "sell" /\ o.price <= e
              THEN e * o.quantity - (e * o.quantity * 5) \div 10000
              ELSE 0)
             + TickCredit(os, i + 1, code, e)

\* C12 amended: the seed limit buy reserves 950,000 + fee 475 = 950,475;
\* the tick at 94,000,000 fills it at 94,000,000, credits 10,000 and makes
\* the position (0.01, avg 94,000,000); in general a tick at e credits
\* (l - e) * qty for every pending buy it fills
C12_ReserveAndRefund ==
    [][/\ (nPost' = nPost + 1 /\ SeedLimitBuy(req'[1]) /\ balance = 1000000)
            => /\ res' = "ok"
               /\ orders'[Len(orders')].status = "pending"
               /\ balance' = 49525
       /\ (nTick' = nTick + 1)
            => /\ balance' = balance
                     + TickCredit(orders, 1, req'[1].code, req'[1].price)
               /\ \A i \in 1..Len(orders) :
                     (/\ orders[i].status = "pending"
                      /\ orders[i].side = "buy"
                      /\ orders[i].code = req'[1].code
                      /\ orders[i].price >= req'[1].price)
                     => /\ orders'[i].status = "filled"
                        /\ orders'[i].filled_price = req'[1].price
       /\ (/\ nTick' = nTick + 1 /\ req'[1].price = 9400
           /\ balance = 49525 /\ Len(orders) = 1
           /\ orders[1].status = "pending" /\ orders[1].price = 9500
           /\ orders[1].quantity = 100)
            => /\ balance' = 59525
               /\ positions'["KRW-BTC"].quantity = 100
               /\ positions'["KRW-BTC"].avg_buy_price = 9400
      ]_vars

\* C12 witness: the seed order has been filled by the tick at 94,000,000
C12_Witness ==
    /\ req[1].op = "tick" /\ req[1].price = 9400
    /\ Len(orders) = 1 /\ orders[1].status = "filled"
    /\ orders[1].price = 9500 /\ orders[1].filled_price = 9400
    /\ balance = 59525 /\ positions["KRW-BTC"].quantity = 100

\* a buy that reaches create_market_order with a valid price: a market buy
\* or a limit buy crossing the market
MarketBuyDecided(rq, outcome) ==
    /\ rq.op = "post" /\ rq.side = "buy"
    /\ rq.order_type = "market" \/ Crossing(rq)
    /\ outcome \notin {"DuplicateOrder", "PriceRequired", "PriceMismatch",
                       "InvalidPrice", "PriceDeviation"}

\* C13: a buy through create_market_order at price p, quantity q succeeds
\* iff balance >= p*q + fee; then the balance falls by exactly that, the
\* position grows by q, one filled Order and one Trade are written; else
\* nothing changes.  Seed (balance 1,000,000, p = 100,000,000): q = 0.01 is
\* rejected, q = 0.005 leaves 499,750 and the position (0.005, avg p)
C13_MarketBuy ==
    [][(nPost' = nPost + 1 /\ MarketBuyDecided(req'[1], res')) =>
        LET rq == req'[1]
            p == rq.validated_price
            q == rq.quantity
            cost == p * q + (p * q * 5) \div 10000
        IN  /\ res' = "ok" <=> balance >= cost
            /\ res' = "ok" =>
                 /\ balance' = balance - cost
                 /\ positions'[rq.code].quantity
                       = positions[rq.code].quantity + q
                 /\ Len(orders') = Len(orders) + 1
                 /\ orders'[Len(orders')].status = "filled"
                 /\ orders'[Len(orders')].side = "buy"
                 /\ orders'[Len(orders')].filled_quantity = q
                 /\ Len(trades') = Len(trades) + 1
                 /\ trades'[Len(trades')].order_id = Len(orders')
            /\ res' # "ok" =>
                 /\ res' \in {"InsufficientBalance",
                              "InsufficientBalanceConcurrent"}
                 /\ UNCHANGED storeVars
            /\ (balance = 1000000 /\ p = 10000 /\ q = 100) => res' # "ok"
            /\ (balance = 1000000 /\ p = 10000 /\ q = 50
                /\ positions[rq.code].id = 0) =>
                 /\ balance' = 499750
                 /\ positions'[rq.code].quantity = 50
                 /\ positions'[rq.code].avg_buy_price = 10000
      ]_vars

\* C13 witness: the seed buy of 0.005 BTC has been filled
C13_Witness ==
    /\ LastPost.op = "post" /\ LastPost.order_type = "market"
    /\ LastPost.side = "buy" /\ LastPost.quantity = 50
    /\ LastPost.validated_price = 10000 /\ res = "ok"
    /\ snap[1].balance = 1000000 /\ balance = 499750
    /\ positions["KRW-BTC"].quantity = 50

\* C13 witness of the rejection: the seed buy of 0.01 BTC was refused
C13_WitnessRejected ==
    /\ LastPost.op = "post" /\ LastPost.order_type = "market"
    /\ LastPost.side = "buy" /\ LastPost.quantity = 100
    /\ snap[1].balance = 1000000 /\ res = "InsufficientBalance"
    /\ balance = 1000000 /\ orders = << >>

\* cash reserved by the pending buy orders: price * quantity + fee each
RECURSIVE ReservedCash(_, _)
ReservedCash(os, i) ==
    IF i > Len(os) THEN 0
    ELSE (IF os[i].status = "pending" /\ os[i].side = "buy"
          THEN os[i].price * os[i].quantity
               + (os[i].price * os[i].quantity * 5) \div 10000
          ELSE 0) + ReservedCash(os, i + 1)

\* fees recorded on the filled orders
RECURSIVE FeesRecorded(_, _)
FeesRecorded(os, i) ==
    IF i > Len(os) THEN 0
    ELSE (IF os[i].status = "filled" THEN os[i].fee ELSE 0)
         + FeesRecorded(os, i + 1)

\* cost basis of the stored positions: quantity * avg_buy_price
RECURSIVE CostBasis(_, _)
CostBasis(pos, codes) ==
    IF codes = {} THEN 0
    ELSE LET c == CHOOSE x \in codes : TRUE
         IN  pos[c].quantity * pos[c].avg_buy_price
             + CostBasis(pos, codes \ {c})

\* reserved cash + balance + cost basis + recorded fees
Ledger(b, pos, os) ==
    ReservedCash(os, 1) + b + CostBasis(pos, Codes) + FeesRecorded(os, 1)

\* the quantity held over all codes: the rounding of one stored average
\* moves the cost basis by less than this
HeldUnits(pos) ==
    CostBasis([c \in Codes |-> [quantity |-> pos[c].quantity,
                                avg_buy_price |-> 1]], Codes)

RECURSIVE TickLedger(_, _, _, _)
TickLedger(os, i, code, e) ==
    IF i > Len(os) THEN 0
    ELSE LET o == os[i]
             resting == o.status = "pending" /\ o.order_type = "limit"
                        /\ o.code = code
         IN  (IF resting /\ o.side = "buy" /\ o.price >= e
              THEN (e * o.quantity * 5) \div 10000
                   - (o.price * o.quantity * 5) \div 10000
              ELSE IF resting /\ o.side = "sell" /\ o.price <= e
              THEN e * o.quantity
              ELSE 0)
             + TickLedger(os, i + 1, code, e)

\* the ledger after the step equals the ledger before it plus delta, less
\* the rounding of the averages written by at most fills UPSERTs
LedgerMoves(delta, fills) ==
    LET before == Ledger(balance, positions, orders) + delta
        after == Ledger(balance', positions', orders')
        held == HeldUnits(positions')
    IN  /\ after <= before
        /\ fills = 0 => after = before
        /\ before - after < fills * held + 1

C15_NoDrainedRow ==
    (\A i \in 1..Len(orders) : orders[i].quantity > 0) =>
        \A c \in Codes :
            positions[c].id # 0 => positions[c].quantity > Epsilon

\* C16: a cancel of an order that is not pending (filled or cancelled) or
\* not a limit order fails and changes no balance, position, order or trade;
\* a second cancel of an order just cancelled is such a failure
C16_CancelNeedsPendingLimit ==
    [][(nCancel' = nCancel + 1) =>
        LET o == snap'[1].order
        IN  /\ (o.status # "pending" \/ o.order_type # "limit") =>
                  /\ res' \in {"NotPending", "NotLimit"}
                  /\ UNCHANGED storeVars
            /\ (req[1].op = "cancel" /\ res = "ok"
                /\ snap[1].order.id = o.id) =>
                  /\ o.status = "cancelled"
                  /\ res' = "NotPending"
                  /\ balance' = balance
                  /\ positions' = positions
      ]_vars

\* C16 witness: the second cancel of an order cancelled before has failed
C16_Witness ==
    /\ nCancel = 2
    /\ req[1].op = "cancel"
    /\ res = "NotPending"
    /\ snap[1].order.status = "cancelled"

\* C16 witness: a cancel of a filled market order has failed
C16_WitnessFilled ==
    /\ req[1].op = "cancel"
    /\ res = "NotPending"
    /\ snap[1].order.status = "filled"
    /\ snap[1].order.order_type = "market"

\* C17: a limit order stored as pending and cancelled by the next request
\* gives back exactly what it reserved: the balance and the position quantity
\* of the code are as before the create, and the order ends cancelled
C17_CreateCancelRoundTrip ==
    [][(/\ req[1].op = "post"
        /\ req[1].order_type = "limit"
        /\ res = "ok"
        /\ LastOrder.status = "pending"
        /\ nCancel' = nCancel + 1
        /\ snap'[1].order.id = Len(orders)) =>
            /\ res' = "ok"
            /\ balance' = snap[1].balance
            /\ positions'[req[1].code].quantity = snap[1].pos.quantity
            /\ \A c \in Codes \ {req[1].code} : positions'[c] = positions[c]
            /\ Len(orders') = Len(orders)
            /\ orders'[Len(orders)] =
                  [LastOrder EXCEPT !.status = "cancelled",
                                    !.cancelled_at = TRUE]
            /\ \A i \in 1..(Len(orders) - 1) : orders'[i] = orders[i]
            /\ trades' = trades
      ]_vars

\* C17 witness: a pending limit buy has been cancelled by the next request
\* and the balance is back at the value before the create
C17_Witness ==
    /\ nPost = 1
    /\ nCancel = 1
    /\ req[1].op = "cancel"
    /\ res = "ok"
    /\ snap[1].order.side = "buy"
    /\ LastOrder.status = "cancelled"
    /\ snap[1].order.quantity > 0
    /\ balance = JoinedDB(scn).balance

\* C17 witness: a pending limit sell has been cancelled by the next request
\* and the position holds the quantity it held before the create
C17_WitnessSell ==
    /\ nPost = 1
    /\ nCancel = 1
    /\ req[1].op = "cancel"
    /\ res = "ok"
    /\ snap[1].order.side = "sell"
    /\ LastOrder.status = "cancelled"
    /\ positions[scn.code] = JoinedDB(scn).positions[scn.code]

\* C18: when the Position row of a pending limit sell's code has been
\* removed, the cancel of that sell succeeds and stores a row for the code
\* whose quantity is the order's quantity (positions holds one row per code)
C18_CancelReinstatesRow ==
    [][(/\ nCancel' = nCancel + 1
        /\ snap'[1].order.status = "pending"
        /\ snap'[1].order.side = "sell"
        /\ positions[snap'[1].order.code].id = 0) =>
            LET o == snap'[1].order
            IN  /\ res' = "ok"
                /\ positions'[o.code].id # 0
                /\ positions'[o.code].quantity = o.quantity
                /\ \A c \in Codes \ {o.code} : positions'[c] = positions[c]
                /\ orders'[o.id].status = "cancelled"
                /\ balance' = balance
      ]_vars

\* C18 witness: the rest of the position was sold while a limit sell was
\* pending, and the cancel of that sell has put the row back
C18_Witness ==
    /\ scn.held = 100
    /\ Len(orders) = 3
    /\ orders[2].status = "cancelled" /\ orders[2].side = "sell"
    /\ orders[3].status = "filled" /\ orders[3].side = "sell"
    /\ orders[3].order_type = "market"
    /\ req[1].op = "cancel"
    /\ res = "ok"
    /\ positions[scn.code].id # 0
    /\ positions[scn.code].quantity = orders[2].quantity

\* the WHERE clause of _get_pending_buy_orders / _get_pending_sell_orders
\* on one order
Eligible(o, code, p) ==
    /\ o.status = "pending"
    /\ o.order_type = "limit"
    /\ o.code = code
    /\ \/ o.side = "buy" /\ o.price >= p
       \/ o.side = "sell" /\ o.price <= p

\* C19: after process_ticker(code, p) with p inside the sanity band, every
\* eligible pending order of the code is filled at p in full, one trade is
\* recorded for each, and every other order is as it was; the balance moves
\* by the credits of the filled orders only
C19_TickFillsEligibleOnly ==
    [][(nTick' = nTick + 1 /\ validate_price(req'[1].code, req'[1].price)) =>
        LET code == req'[1].code
            p == req'[1].price
            hit == {i \in 1..Len(orders) : Eligible(orders[i], code, p)}
        IN  /\ Len(orders') = Len(orders)
            /\ \A i \in hit :
                  orders'[i] =
                      [orders[i] EXCEPT
                          !.status = "filled",
                          !.filled_price = p,
                          !.filled_quantity = orders[i].quantity,
                          !.fee = (p * orders[i].quantity * 5) \div 10000,
                          !.filled_at = TRUE]
            /\ \A i \in (1..Len(orders)) \ hit : orders'[i] = orders[i]
            /\ Len(trades') = Len(trades) + Cardinality(hit)
            /\ \A i \in hit :
                  \E k \in (Len(trades) + 1)..Len(trades') :
                      trades'[k].order_id = i /\ trades'[k].price = p
            /\ balance' = balance + TickCredit(orders, 1, code, p)
            /\ \A c \in Codes \ {code} : positions'[c] = positions[c]
      ]_vars

\* C19 witness: one tick has filled the pending buy at or above its price
\* and left the pending buy below its price pending
C19_Witness ==
    /\ req[1].op = "tick"
    /\ nTick = 1
    /\ \E i, j \in 1..Len(orders) :
          /\ orders[i].order_type = "limit" /\ orders[i].side = "buy"
          /\ orders[i].status = "filled"
          /\ orders[i].filled_price = req[1].price
          /\ orders[i].price > req[1].price
          /\ orders[j].order_type = "limit" /\ orders[j].side = "buy"
          /\ orders[j].status = "pending"
          /\ orders[j].code = req[1].code
          /\ orders[j].price < req[1].price

\* C19 witness: a tick of another code has left a pending order pending
C19_WitnessOtherCode ==
    /\ req[1].op = "tick"
    /\ \E j \in 1..Len(orders) :
          /\ orders[j].status = "pending"
          /\ orders[j].code # req[1].code
          /\ orders[j].side = "buy"
          /\ orders[j].price >= req[1].price

C20_WitnessSameSide ==
    /\ req[1].op = "tick"
    /\ Len(trades) >= 2
    /\ LET a == trades[Len(trades) - 1]
           b == trades[Len(trades)]
       IN  /\ a.side = "buy" /\ b.side = "buy"
           /\ a.order_id < b.order_id
           /\ orders[a.order_id].order_type = "limit"
           /\ orders[b.order_id].order_type = "limit"
           /\ a.price = req[1].price /\ b.price = req[1].price

(* ---------------------------------------------------------------------- *)
(* One tick on one AsyncSession, with a store error                        *)
(* ---------------------------------------------------------------------- *)
\* the statements of execute_limit_order at which the store may answer with
\* an error: the SELECT of the participant, one of the UPDATE / INSERT /
\* DELETE statements, the COMMIT
FailPoints == {"select", "write", "commit"}

\* the loop of process_ticker over the loaded orders, all on the session of
\* the tick: st = [db: what is committed, sess: the session].  The order
\* bad gets a store error at statement stmt; the exception is caught by the
\* loop, nothing rolls the session back, and every later statement on the
\* session raises at once.  Each execution that ends commits.
RECURSIVE SessionFill(_, _, _, _, _)
SessionFill(st, queue, current_price, bad, stmt) ==
    IF queue = << >> THEN st
    ELSE LET o == Head(queue)
             out == execute_limit_order(st.db, o, current_price)
             raises == [st EXCEPT !.sess.raised = @ \cup {o.id}]
             next ==
                 IF st.sess.aborted THEN raises
                 ELSE IF o.id = bad
                 THEN [raises EXCEPT !.sess.aborted = TRUE,
                                     !.sess.failed = o.id,
                                     !.sess.dirty = (stmt # "select")]
                 ELSE IF out.err # "ok" THEN raises
                 ELSE [st EXCEPT !.db = out.db]
         IN  SessionFill(next, Tail(queue), current_price, bad, stmt)

\* process_ticker_for_matching inside `async with async_session() as db`:
\* the buy pass, then the sell pass unless the SELECT of the sell orders
\* raises on the failed session; leaving the block closes the session, and
\* what was not committed is rolled back
SessionTicker(db, code, current_price, bad, stmt) ==
    LET buy_orders == SelectPending(db.orders, 1, code, "buy", current_price)
        s1 == SessionFill([db |-> db, sess |-> NoSession], buy_orders,
                          current_price, bad, stmt)
        sell_orders == IF s1.sess.aborted THEN << >>
                       ELSE SelectPending(s1.db.orders, 1, code, "sell",
                                          current_price)
    IN  SessionFill(s1, sell_orders, current_price, bad, stmt)

\* one message of the feed through the matching step, where the store
\* fails once (bad # 0) or not at all
BatchTick ==
    /\ nTick < MaxTicks
    /\ \E t \in scn.ticks, bad \in 0..Len(orders), stmt \in FailPoints :
        LET out == SessionTicker(DB, t[1], t[2], bad, stmt)
        IN  /\ bad = 0 => stmt = "select"
            /\ bad # 0 => Eligible(orders[bad], t[1], t[2])
            /\ Commit(out.db)
            /\ session' = out.sess
            /\ req' = [req EXCEPT ![1] = [NoReq EXCEPT !.op = "tick",
                                                 !.code = t[1],
                                                 !.price = t[2]]]
    /\ snap' = [snap EXCEPT ![1] = NoSnap]
    /\ res' = "none"
    /\ nTick' = nTick + 1
    /\ UNCHANGED <<auxNotBatch, scn, redisUp, cacheKeys, lock, pc, eng, nPost,
                   nCancel, hist>>

BatchNext ==
    \/ SerialPost
    \/ BatchTick

BatchSpec == SerialInit /\ [][BatchNext]_vars

\* C21: when the execution of one eligible order fails, every other
\* eligible order of the tick is filled, and nothing of the failed order is
\* stored: its row is as it was, no trade refers to it, and the balance
\* moves by the credits of the filled orders only
C21_FailureSkipsOneOrder ==
    [][(/\ nTick' = nTick + 1
        /\ session'.failed # 0
        /\ \A i \in 1..Len(orders) : orders[i].quantity > 0) =>
        LET code == req'[1].code
            p == req'[1].price
            hit == {i \in 1..Len(orders) : Eligible(orders[i], code, p)}
            bad == session'.failed
        IN  /\ \A i \in hit \ {bad} : orders'[i].status = "filled"
            /\ orders'[bad] = orders[bad]
            /\ \A k \in 1..Len(trades') : trades'[k].order_id # bad
      ]_vars

(* ---------------------------------------------------------------------- *)
(* distributed_lock("order:{user}", ttl=10, wait_timeout=5.0)              *)
(* ---------------------------------------------------------------------- *)
\* create_order reaches `async with cache.distributed_lock(...)`
LeaseEnter(r) ==
    /\ lpc[r] \in {"idle", "refused"}
    /\ nToken < MaxTokens
    /\ lpc' = [lpc EXCEPT ![r] = "wait"]
    /\ UNCHANGED <<orderVars, auxNotLease, lockToken, myToken, nToken,
                   lapsed, released>>

\* one acquire_lock of the retry loop that returns a token: SET NX EX 10
\* with a fresh uuid4, or the dummy token when Redis is not connected; the
\* handler is then inside _execute_order
LeaseAcquire(r) ==
    /\ lpc[r] = "wait"
    /\ LET lock_token == nToken + 1
           a == acquire_lock(redisUp, lockToken, lock_token)
       IN  /\ a.token
           /\ lockToken' = a.holder
           /\ myToken' = [myToken EXCEPT ![r] = lock_token]
           /\ nToken' = lock_token
    /\ lpc' = [lpc EXCEPT ![r] = "crit"]
    /\ UNCHANGED <<orderVars, auxNotLease, lapsed, released>>

\* the retry loop gives up: acquire_lock returned None and 5 s have passed;
\* the request is answered 429
LeaseTimeout(r) ==
    /\ lpc[r] = "wait"
    /\ ~ acquire_lock(redisUp, lockToken, nToken + 1).token
    /\ lpc' = [lpc EXCEPT ![r] = "refused"]
    /\ UNCHANGED <<orderVars, auxNotLease, lockToken, myToken, nToken,
                   lapsed, released>>

\* _execute_order has returned or raised: the finally clause calls
\* release_lock with the handler's token
LeaseExit(r) ==
    /\ lpc[r] = "crit"
    /\ lockToken' = release_lock(redisUp, lockToken, myToken[r])
    /\ released' = released \cup {<<myToken[r], lockToken>>}
    /\ myToken' = [myToken EXCEPT ![r] = NoHolder]
    /\ lpc' = [lpc EXCEPT ![r] = "idle"]
    /\ UNCHANGED <<orderVars, auxNotLease, nToken, lapsed>>

\* Redis drops the key 10 s after the SET, whatever its holder is doing
LeaseExpire ==
    /\ lockToken # NoHolder
    /\ lapsed' = lapsed \cup {lockToken}
    /\ lockToken' = NoHolder
    /\ UNCHANGED <<orderVars, auxNotLease, myToken, lpc, nToken, released>>

LeaseNext ==
    \/ \E r \in Procs : LeaseEnter(r)
    \/ \E r \in Procs : LeaseAcquire(r)
    \/ \E r \in Procs : LeaseTimeout(r)
    \/ \E r \in Procs : LeaseExit(r)
    \/ LeaseExpire

LeaseSpec == Init /\ [][LeaseNext]_vars

InCritical == {r \in Procs : lpc[r] = "crit"}

\* C22 as stated: with Redis connected, at most one request of the user is
\* inside _execute_order, however long the handler takes
C22_Original ==
    redisUp => Cardinality(InCritical) <= 1

\* C22 amended: with Redis connected, at most one request is inside
\* _execute_order on a lease that has not expired, and that request's token
\* is the value of the key; two requests are inside together only when the
\* lease of one of them has run out
C22_OneUnexpiredHolder ==
    redisUp =>
        /\ Cardinality({r \in InCritical : myToken[r] \notin lapsed}) <= 1
        /\ \A r \in InCritical :
              myToken[r] \notin lapsed => lockToken = myToken[r]
        /\ \A r, q \in InCritical : r # q => myToken[r] # myToken[q]

\* C22 witness: one request is inside on its lease while another request
\* waits for the key
C22_Witness ==
    /\ redisUp
    /\ \E r, q \in Procs :
          /\ lpc[r] = "crit" /\ myToken[r] = lockToken
          /\ lpc[q] = "wait"

\* C30: release_lock removes the key only when the key holds the caller's
\* token, in one step of the cache; the release of a holder whose lease ran
\* out leaves the key of the request that acquired it afterwards in place
C30_CompareAndDelete ==
    [][\A r \in Procs :
        (lpc[r] = "crit" /\ lpc'[r] = "idle" /\ redisUp) =>
            /\ lockToken' = IF lockToken = myToken[r] THEN NoHolder
                            ELSE lockToken
            /\ (myToken[r] \in lapsed /\ lockToken # NoHolder) =>
                  /\ lockToken # myToken[r]
                  /\ lockToken' = lockToken
            /\ \A q \in Procs \ {r} :
                  myToken'[q] = myToken[q] /\ lpc'[q] = lpc[q]
      ]_vars

\* C30 witness: a handler whose lease had run out has called release_lock
\* while the key held the token of another request, and that request still
\* holds the key
C30_Witness ==
    /\ redisUp
    /\ \E x \in released, q \in Procs :
          /\ x[1] \in lapsed
          /\ x[2] # NoHolder /\ x[2] # x[1]
          /\ lockToken = x[2]
          /\ lpc[q] = "crit" /\ myToken[q] = x[2]

(* ---------------------------------------------------------------------- *)
(* Competitions: join, the order window, admin changes, the lifecycle task *)
(* ---------------------------------------------------------------------- *)
\* the competitions with status 'active' the user participates in: the rows
\* of the SELECT of create_order and of get_participant
ActiveOf(mem, cs) == {c \in mem : cs[c].status = "active"}

\* validate_competition_time that raises nothing
AlwaysInTime(competition, t) == "ok"

\* validate_competition_time
validate_competition_time(competition, t) ==
    IF t < competition.start_time THEN "NotStarted"
    ELSE IF t > competition.end_time THEN "AlreadyEnded"
    ELSE "ok"

\* create_order: the SELECT of the active competition (scalar_one_or_none)
\* and the time check
OrderCheck(r) ==
    /\ hpc[r].pc = "idle"
    /\ LET found == ActiveOf(member, comps)
           c == CHOOSE x \in found : TRUE
           out == IF found = {} THEN "NotParticipating"
                  ELSE IF Cardinality(found) > 1 THEN "MultipleResultsFound"
                  ELSE validate_competition_time(comps[c], now)
       IN  hpc' = [hpc EXCEPT ![r] =
                      IF out = "ok"
                      THEN [pc |-> "order", comp |-> c, at |-> now,
                            status |-> comps[c].status, out |-> "none"]
                      ELSE [HandlerIdle EXCEPT !.out = out]]
    /\ last' = NoRun
    /\ UNCHANGED <<orderVars, auxNotComp, now, comps, member, placed>>

\* _execute_order: get_participant (status 'active', LIMIT 1) and the
\* creation of the order for that participant
OrderExec(r) ==
    /\ hpc[r].pc = "order"
    /\ LET found == ActiveOf(member, comps)
       IN  IF found = {}
           THEN /\ hpc' = [hpc EXCEPT ![r] =
                              [HandlerIdle EXCEPT !.out = "NotParticipating"]]
                /\ UNCHANGED placed
           ELSE \E c \in found :
                /\ placed' = [comp |-> c, checked |-> hpc[r].comp,
                              at |-> hpc[r].at, status |-> hpc[r].status]
                /\ hpc' = [hpc EXCEPT ![r] = [HandlerIdle EXCEPT !.out = "ok"]]
    /\ last' = NoRun
    /\ UNCHANGED <<orderVars, auxNotComp, now, comps, member>>

\* join_competition up to the INSERT: the competition is 'active', the user
\* is not in it, the user is in no other active competition
JoinCheck(r, c) ==
    /\ hpc[r].pc = "idle"
    /\ LET out == IF comps[c].status # "active" THEN "NotActive"
                  ELSE IF c \in member THEN "AlreadyParticipating"
                  ELSE IF ActiveOf(member, comps) \ {c} # {}
                  THEN "InOtherCompetition"
                  ELSE "ok"
       IN  hpc' = [hpc EXCEPT ![r] =
                      IF out = "ok"
                      THEN [HandlerIdle EXCEPT !.pc = "join", !.comp = c]
                      ELSE [HandlerIdle EXCEPT !.out = out]]
    /\ last' = NoRun
    /\ UNCHANGED <<orderVars, auxNotComp, now, comps, member, placed>>

\* join_competition: INSERT of the Participant and commit; the unique
\* constraint uq_participant_competition_user refuses a second row
JoinCommit(r) ==
    /\ hpc[r].pc = "join"
    /\ IF hpc[r].comp \in member
       THEN /\ hpc' = [hpc EXCEPT ![r] =
                          [HandlerIdle EXCEPT !.out = "IntegrityError"]]
            /\ UNCHANGED member
       ELSE /\ member' = member \cup {hpc[r].comp}
            /\ hpc' = [hpc EXCEPT ![r] = [HandlerIdle EXCEPT !.out = "ok"]]
    /\ last' = NoRun
    /\ UNCHANGED <<orderVars, auxNotComp, now, comps, placed>>

\* update_competition: an admin sets any of the three statuses
AdminUpdate(c, status) ==
    /\ comps[c].status # status
    /\ comps' = [comps EXCEPT ![c].status = status]
    /\ last' = NoRun
    /\ UNCHANGED <<orderVars, auxNotComp, now, member, hpc, placed>>

\* update_competition_statuses without its second UPDATE
LifecycleActivateOnly(cs, t) ==
    [c \in DOMAIN cs |->
        IF cs[c].status = "pending" /\ cs[c].start_time <= t
        THEN [cs[c] EXCEPT !.status = "active"] ELSE cs[c]]

\* one run of update_competition_statuses at time t: the two UPDATEs in
\* their order, in one transaction
lifecycle(cs, t) ==
    LET cs1 == [c \in DOMAIN cs |->
                   IF cs[c].status = "pending" /\ cs[c].start_time <= t
                   THEN [cs[c] EXCEPT !.status = "active"] ELSE cs[c]]
    IN  [c \in DOMAIN cs |->
            IF cs1[c].status = "active" /\ cs1[c].end_time < t
            THEN [cs1[c] EXCEPT !.status = "ended"] ELSE cs1[c]]

LifecycleRun ==
    /\ comps' = lifecycle(comps, now)
    /\ last' = [c \in Comps |-> comps[c].status]
    /\ UNCHANGED <<orderVars, auxNotComp, now, member, hpc, placed>>

\* time passes
Advance ==
    /\ now < MaxTime
    /\ now' = now + 1
    /\ last' = NoRun
    /\ UNCHANGED <<orderVars, auxNotComp, comps, member, hpc, placed>>

CompNext ==
    \/ \E r \in Procs : OrderCheck(r)
    \/ \E r \in Procs : OrderExec(r)
    \/ \E r \in Procs, c \in Comps : JoinCheck(r, c)
    \/ \E r \in Procs : JoinCommit(r)
    \/ \E c \in Comps, status \in {"pending", "active", "ended"} :
          AdminUpdate(c, status)
    \/ LifecycleRun
    \/ Advance

\* the competitions have been created, nobody has joined or traded yet
CompInit == Init /\ redisUp /\ scn.held = 0

CompSpec == CompInit /\ [][CompNext]_vars

InWindow(c, t) == comps[c].start_time <= t /\ t <= comps[c].end_time

OrderRejections ==
    {"NotParticipating", "MultipleResultsFound", "NotStarted", "AlreadyEnded"}

\* C23: POST /orders goes on to create an order only when its check has
\* found the user's competition with status 'active' at a time inside
\* start_time..end_time; every created order has passed such a check, and a
\* request that fails the check changes nothing
C23_OrdersOnlyInWindow ==
    [][\A r \in Procs :
        /\ (hpc[r].pc = "idle" /\ hpc'[r].pc = "order") =>
              /\ hpc'[r].comp \in member
              /\ comps[hpc'[r].comp].status = "active"
              /\ InWindow(hpc'[r].comp, now)
              /\ hpc'[r].at = now
        /\ (hpc[r].pc = "order" /\ hpc'[r].out = "ok") =>
              /\ placed'.checked = hpc[r].comp
              /\ placed'.status = "active"
              /\ InWindow(placed'.checked, placed'.at)
        /\ placed' # placed => hpc[r].pc = "order" \/ hpc'[r] = hpc[r]
        /\ (hpc[r].pc \in {"idle", "order"} /\ hpc'[r].pc = "idle"
            /\ hpc'[r].out \in OrderRejections /\ hpc'[r] # hpc[r]) =>
              UNCHANGED <<placed, member, comps, orderVars>>
      ]_vars

\* C23 witness: an order has been created after a check inside the window
C23_Witness ==
    /\ placed # NoPlaced
    /\ placed.status = "active"
    /\ InWindow(placed.checked, placed.at)

\* C23 witness: a request has been refused because the competition, made
\* 'active' by an admin, has not started, and no order exists
C23_WitnessRefused ==
    /\ placed = NoPlaced
    /\ \E r \in Procs : hpc[r].out = "NotStarted"

\* C24: the user has a Participant row in at most one competition whose
\* status is 'active'
C24_OneActiveParticipation ==
    Cardinality(ActiveOf(member, comps)) <= 1

\* the lifecycle task is a loop that sleeps 30 s and runs again, and catches
\* every exception of a run
CompLiveSpec == CompSpec /\ WF_vars(LifecycleRun)

Started(c, t) == comps[c].start_time <= t

Over(c, t) == comps[c].end_time < t

\* C25 as stated: a run makes every due 'pending' competition 'active',
\* every overdue 'active' competition 'ended', and changes no other status
C25_Original ==
    [][LifecycleRun =>
        \A c \in Comps :
            comps'[c].status =
                IF comps[c].status = "pending" /\ Started(c, now) THEN "active"
                ELSE IF comps[c].status = "active" /\ Over(c, now) THEN "ended"
                ELSE comps[c].status
      ]_vars

\* C25: a run at time now leaves a competition 'ended' when it was 'active',
\* or 'pending' and started, and its end_time < now; 'active' when it was
\* 'pending' with start_time <= now and end_time >= now; every other status
\* and every start_time and end_time as it was; under repeated runs every
\* competition whose end_time has passed becomes 'ended'
C25_LifecycleRun ==
    /\ [][LifecycleRun =>
            \A c \in Comps :
                /\ comps'[c].status =
                      IF /\ \/ comps[c].status = "active"
                            \/ comps[c].status = "pending" /\ Started(c, now)
                         /\ Over(c, now)
                      THEN "ended"
                      ELSE IF comps[c].status = "pending" /\ Started(c, now)
                      THEN "active"
                      ELSE comps[c].status
                /\ comps'[c].start_time = comps[c].start_time
                /\ comps'[c].end_time = comps[c].end_time
          ]_vars
    /\ \A c \in Comps : Over(c, now) ~> (comps[c].status = "ended")

\* C25 witness: a run has found a 'pending' competition whose end_time had
\* passed and has left it 'ended', and has activated another one
C25_Witness ==
    /\ last # NoRun
    /\ \E c \in Comps :
          last[c] = "pending" /\ Over(c, now) /\ comps[c].status = "ended"

\* C25 witness: a run has moved a 'pending' competition inside its window to
\* 'active' and left an 'ended' one alone
C25_WitnessActivated ==
    /\ last # NoRun
    /\ \E c, d \in Comps :
          /\ last[c] = "pending" /\ ~Over(c, now) /\ comps[c].status = "active"
          /\ last[d] = "ended" /\ comps[d].status = "ended"

(* ---------------------------------------------------------------------- *)
(* The ingestor, broadcast and the viewers' websocket_endpoint             *)
(* ---------------------------------------------------------------------- *)
\* the ticks the upstream feed sends
FeedTicks == {[code |-> c, trade_price |-> 100] : c \in Codes}

\* the codes of a subscribe message; {} is "all"
SubscribeChoices == {{}, {"KRW-BTC"}}

\* json.dumps(data, default=str): the text sent to the viewers
Encode(data) == <<"json", data.code, data.trade_price>>

\* subscriptions.get(client, set())
SubsOf(client) ==
    IF client \in DOMAIN subscriptions THEN subscriptions[client] ELSE {}

\* broadcast that sends every tick to every viewer
SubscribedAll(client_subs, code) == TRUE

\* broadcast: not client_subs or code in client_subs
Subscribed(client_subs, code) == client_subs = {} \/ code \in client_subs

\* subscriptions.pop(client, None) for the clients of gone
PopAll(subs, gone) == [v \in DOMAIN subs \ gone |-> subs[v]]

\* the event loop can run another coroutine: the ingestor waits for a frame,
\* for the store or for the reconnect, or broadcast is suspended in a send
AtAwait == ing.pc \in {"idle", "match", "reconnect"} \/ bc.cur # NoViewer

\* lifespan: SELECT 1 sets postgres_available, then the ingestor starts
lifespan ==
    /\ ing.pc = "boot"
    /\ \E ok \in BOOLEAN : postgres_available' = ok
    /\ ing' = [pc |-> "idle", tick |-> NoTick]
    /\ UNCHANGED <<orderVars, auxNotFeed, connected_clients, subscriptions,
                   viewer, bc, delivered, received, offered>>

\* upbit_websocket_handler reads a frame and calls broadcast(data), which
\* creates the iterator of connected_clients
FeedRecv(data) ==
    /\ ing.pc = "idle"
    /\ Len(received) < MaxRecv
    /\ received' = Append(received, data)
    /\ ing' = [pc |-> "broadcast", tick |-> data]
    /\ bc' = [used |-> Cardinality(connected_clients),
              todo |-> connected_clients, disconnected |-> {},
              cur |-> NoViewer, stable |-> connected_clients]
    /\ delivered' = {}
    /\ UNCHANGED <<orderVars, auxNotFeed, postgres_available,
                   connected_clients, subscriptions, viewer, offered>>

\* broadcast: the next step of "for client in connected_clients". The
\* iterator raises RuntimeError when the size of the set has changed; the
\* error leaves broadcast and the frame loop and ends in the handler's outer
\* except. When the iterator is exhausted the clients whose send failed are
\* discarded and the handler goes on to the matching step
BroadcastNext ==
    /\ ing.pc = "broadcast"
    /\ bc.cur = NoViewer
    /\ IF Cardinality(connected_clients) # bc.used
       THEN /\ ing' = [ing EXCEPT !.pc = "reconnect"]
            /\ bc' = NoBroadcast
            /\ UNCHANGED <<connected_clients, subscriptions>>
       ELSE IF bc.todo = {}
       THEN /\ connected_clients' = connected_clients \ bc.disconnected
            /\ subscriptions' = PopAll(subscriptions, bc.disconnected)
            /\ ing' = [ing EXCEPT !.pc = IF postgres_available
                                         THEN "match" ELSE "idle"]
            /\ bc' = NoBroadcast
       ELSE /\ \E client \in bc.todo :
                 bc' = [bc EXCEPT
                           !.todo = @ \ {client},
                           !.cur = IF Subscribed(SubsOf(client),
                                                 ing.tick.code)
                                   THEN client ELSE NoViewer]
            /\ UNCHANGED <<ing, connected_clients, subscriptions>>
    /\ UNCHANGED <<orderVars, auxNotFeed, postgres_available, viewer,
                   delivered, received, offered>>

\* broadcast: client.send_text(message) returns or raises
BroadcastSent ==
    /\ ing.pc = "broadcast"
    /\ bc.cur # NoViewer
    /\ IF viewer[bc.cur] = "open"
       THEN /\ delivered' = delivered \cup
                   {<<bc.cur, Len(received), Encode(ing.tick)>>}
            /\ bc' = [bc EXCEPT !.cur = NoViewer]
       ELSE /\ bc' = [bc EXCEPT !.cur = NoViewer,
                                !.disconnected = @ \cup {bc.cur}]
            /\ UNCHANGED delivered
    /\ UNCHANGED <<orderVars, auxNotFeed, postgres_available,
                   connected_clients, subscriptions, viewer, ing, received,
                   offered>>

\* upbit_websocket_handler: process_ticker_for_matching on a session of its
\* own; whatever it raises is dropped
FeedMatch ==
    /\ ing.pc = "match"
    /\ offered' = Append(offered, ing.tick)
    /\ ing' = [pc |-> "idle", tick |-> NoTick]
    /\ UNCHANGED <<orderVars, auxNotFeed, postgres_available,
                   connected_clients, subscriptions, viewer, bc, delivered,
                   received>>

\* upbit_websocket_handler: the outer except, sleep(1), a new connection
FeedReconnect ==
    /\ ing.pc = "reconnect"
    /\ ing' = [pc |-> "idle", tick |-> NoTick]
    /\ UNCHANGED <<orderVars, auxNotFeed, postgres_available,
                   connected_clients, subscriptions, viewer, bc, delivered,
                   received, offered>>

\* websocket_endpoint: accept, connected_clients.add, subscriptions[ws] =
\* set(). The slot the new element takes in the set's table lies before or
\* behind the position of a running iterator
ViewerConnect(v) ==
    /\ AtAwait
    /\ viewer[v] = "absent"
    /\ viewer' = [viewer EXCEPT ![v] = "open"]
    /\ connected_clients' = connected_clients \cup {v}
    /\ subscriptions' =
          [x \in DOMAIN subscriptions \cup {v} |->
              IF x = v THEN {} ELSE subscriptions[x]]
    /\ IF ing.pc = "broadcast"
       THEN \E behind \in BOOLEAN :
               bc' = [bc EXCEPT !.todo = IF behind THEN @ \cup {v} ELSE @]
       ELSE UNCHANGED bc
    /\ UNCHANGED <<orderVars, auxNotFeed, postgres_available, ing, delivered,
                   received, offered>>

\* websocket_endpoint: a subscribe message replaces the viewer's codes
ViewerSubscribe(v, codes) ==
    /\ AtAwait
    /\ viewer[v] = "open"
    /\ codes # SubsOf(v)
    /\ subscriptions' =
          [x \in DOMAIN subscriptions \cup {v} |->
              IF x = v THEN codes ELSE subscriptions[x]]
    /\ bc' = [bc EXCEPT !.stable = @ \ {v}]
    /\ UNCHANGED <<orderVars, auxNotFeed, postgres_available,
                   connected_clients, viewer, ing, delivered, received,
                   offered>>

\* the connection of a viewer breaks; its endpoint has not noticed yet
ViewerBreak(v) ==
    /\ AtAwait
    /\ viewer[v] = "open"
    /\ viewer' = [viewer EXCEPT ![v] = "broken"]
    /\ bc' = [bc EXCEPT !.stable = @ \ {v}]
    /\ UNCHANGED <<orderVars, auxNotFeed, postgres_available,
                   connected_clients, subscriptions, ing, delivered,
                   received, offered>>

\* websocket_endpoint: WebSocketDisconnect, then connected_clients.discard
\* and subscriptions.pop in the finally block
ViewerDisconnect(v) ==
    /\ AtAwait
    /\ viewer[v] \in {"open", "broken"}
    /\ viewer' = [viewer EXCEPT ![v] = "gone"]
    /\ connected_clients' = connected_clients \ {v}
    /\ subscriptions' = PopAll(subscriptions, {v})
    /\ bc' = [bc EXCEPT !.todo = @ \ {v}, !.stable = @ \ {v}]
    /\ UNCHANGED <<orderVars, auxNotFeed, postgres_available, ing, delivered,
                   received, offered>>

FeedNext ==
    \/ lifespan
    \/ \E data \in FeedTicks : FeedRecv(data)
    \/ BroadcastNext
    \/ BroadcastSent
    \/ FeedMatch
    \/ FeedReconnect
    \/ \E v \in Viewers : ViewerConnect(v)
    \/ \E v \in Viewers, codes \in SubscribeChoices : ViewerSubscribe(v, codes)
    \/ \E v \in Viewers : ViewerBreak(v)
    \/ \E v \in Viewers : ViewerDisconnect(v)

\* the application before lifespan, one user, nothing traded
FeedInit ==
    /\ CompInit
    /\ scn = CHOOSE x \in ConcurrentScenarios : x.code = "KRW-BTC" /\ x.held = 0

FeedSpec == FeedInit /\ [][FeedNext]_vars

\* the viewers connect, subscribe and leave between two publishes only
QuietConnect(v) == ing.pc # "broadcast" /\ ViewerConnect(v)

QuietSubscribe(v, codes) == ing.pc # "broadcast" /\ ViewerSubscribe(v, codes)

QuietBreak(v) == ing.pc # "broadcast" /\ ViewerBreak(v)

QuietDisconnect(v) == ing.pc # "broadcast" /\ ViewerDisconnect(v)

FanoutNext ==
    \/ lifespan
    \/ \E data \in FeedTicks : FeedRecv(data)
    \/ BroadcastNext
    \/ BroadcastSent
    \/ FeedMatch
    \/ \E v \in Viewers : QuietConnect(v)
    \/ \E v \in Viewers, codes \in SubscribeChoices : QuietSubscribe(v, codes)
    \/ \E v \in Viewers : QuietBreak(v)
    \/ \E v \in Viewers : QuietDisconnect(v)

FanoutSpec == FeedInit /\ [][FanoutNext]_vars

\* the broadcast of the current tick returns in this step
BroadcastReturns == ing.pc = "broadcast" /\ ing'.pc \in {"match", "idle"}

\* the viewers in connected_clients that the tick of the running broadcast
\* is for
Targets ==
    {v \in connected_clients :
        SubsOf(v) = {} \/ ing.tick.code \in SubsOf(v)}

\* C26: when broadcast(tick) returns, the JSON-encoded tick has been sent to
\* exactly the connected viewers whose codes are empty or contain the tick's
\* code and whose send succeeded; the viewers whose send failed are in
\* neither connected_clients nor subscriptions, and every other viewer's
\* entry is as it was
C26_FanOut ==
    [][BroadcastReturns =>
        LET failed == {v \in Targets : viewer[v] # "open"}
        IN  /\ delivered' =
                  {<<v, Len(received), Encode(ing.tick)>> :
                      v \in Targets \ failed}
            /\ connected_clients' = connected_clients \ failed
            /\ DOMAIN subscriptions' = DOMAIN subscriptions \ failed
            /\ \A v \in DOMAIN subscriptions' :
                  subscriptions'[v] = subscriptions[v]
      ]_vars

\* C26 witness: a broadcast has returned after sending the tick to one
\* viewer, skipping a viewer subscribed to another code, and removing a
\* viewer whose send failed
C26_Witness ==
    /\ ing.pc \in {"match", "idle"}
    /\ received # << >>
    /\ \E a, b, c \in Viewers :
          /\ <<a, Len(received), Encode(received[Len(received)])>>
                \in delivered
          /\ b \in connected_clients /\ viewer[b] = "open"
          /\ SubsOf(b) # {}
          /\ received[Len(received)].code \notin SubsOf(b)
          /\ \A x \in delivered : x[1] # b
          /\ viewer[c] = "broken"
          /\ c \notin connected_clients /\ c \notin DOMAIN subscriptions
          /\ \A x \in delivered : x[1] # c

\* C27: a viewer connecting or disconnecting while broadcast is suspended in
\* a send is safe: broadcast does not raise, every viewer that stayed
\* connected with the same codes for the whole publish and subscribes to the
\* code receives the tick, and the ingestor goes on to the matching step
C27_ChurnIsSafe ==
    [][/\ ing.pc = "broadcast" => ing'.pc # "reconnect"
       /\ BroadcastReturns =>
             /\ \A v \in bc.stable \cap Targets :
                   <<v, Len(received), Encode(ing.tick)>> \in delivered'
             /\ postgres_available => ing'.pc = "match"
      ]_vars

\* C28: every tick read from the upstream feed is passed to
\* process_ticker_for_matching exactly once, in the order received, when
\* PostgreSQL was available at startup
C28_EveryTickOfferedOnce ==
    (postgres_available /\ ing.pc \in {"idle", "reconnect"}) =>
        offered = received


(* ---------------------------------------------------------------------- *)
(* POST /orders statement by statement on the session of get_db            *)
(* ---------------------------------------------------------------------- *)
\* the price create_market_order or create_limit_order computes the cost at
OrderPrice(rq) ==
    IF rq.order_type = "market" THEN rq.validated_price
    ELSE IF rq.validated_price # NoPrice
            /\ ShouldExecuteImmediately(rq.side, rq.price, rq.validated_price)
    THEN rq.validated_price
    ELSE rq.price

\* the rows as the transaction sees them after the UPDATE of the atomic
\* guard: the balance less total + fee, or the position less the quantity
GuardDebit(db, rq) ==
    LET total_amount == TotalAmount(OrderPrice(rq), rq.quantity)
        total_cost == total_amount + Fee(total_amount)
    IN  IF rq.side = "buy"
        THEN [db EXCEPT !.balance = db.balance - total_cost]
        ELSE [db EXCEPT !.positions[rq.code].quantity =
                             db.positions[rq.code].quantity - rq.quantity]

\* a session.close() that commits what the transaction has written
CloseCommits(stored, written) == written

\* get_db: session.close() without a commit rolls the transaction back
Rollback(stored, written) == stored

\* create_order up to get_participant and get_position, under the lock
TxLoad ==
    /\ tx.pc = "idle"
    /\ nPost < MaxPosts
    /\ \E side \in Sides, order_type \in OrderTypes,
          quantity \in scn.quantities,
          client_price \in scn.client_prices,
          server_price \in scn.server_prices, key \in scn.keys :
       \E price \in IF order_type = "market" THEN {NoPrice}
                    ELSE scn.limit_prices[side] :
        LET code == scn.code
            ckey == CacheKey(code, side, order_type, quantity, price, key)
            nx == setnx_with_ttl(redisUp, {}, ckey)
            outcome == CreateOrderChecks(nx.is_new, order_type, price,
                                         client_price, server_price)
            rq == Request(code, side, order_type, quantity, price,
                          client_price, server_price, key)
        IN  /\ Exact(rq.validated_price, quantity)
            /\ Exact(price, quantity)
            /\ cacheKeys' = nx.keys
            /\ req' = [req EXCEPT ![2] = rq]
            /\ IF outcome = "running"
               THEN /\ acquire_lock(redisUp, lock, 2).token
                    /\ lock' = acquire_lock(redisUp, lock, 2).holder
                    /\ snap' = [snap EXCEPT ![2] =
                                   [balance |-> balance,
                                    pos |-> positions[code],
                                    order |-> NoOrder]]
                    /\ tx' = [pc |-> "loaded", db |-> DB]
                    /\ UNCHANGED res
               ELSE /\ res' = outcome
                    /\ UNCHANGED <<lock, snap, tx>>
    /\ nPost' = nPost + 1
    /\ UNCHANGED <<auxNotTx, scn, redisUp, storeVars, pc, eng, nCancel,
                   nTick, hist>>

\* create_market_order / create_limit_order from validate_price to the
\* UPDATE of the atomic guard; an HTTPException leaves the handler and
\* get_db closes the session
TxGuard ==
    /\ tx.pc = "loaded"
    /\ LET out == ExecuteOrder(DB, snap[2], req[2])
       IN  IF out.err = "ok"
           THEN /\ tx' = [pc |-> "debited", db |-> GuardDebit(DB, req[2])]
                /\ UNCHANGED <<storeVars, res, lock, snap>>
           ELSE /\ Commit(Rollback(DB, tx.db))
                /\ res' = out.err
                /\ tx' = [tx EXCEPT !.pc = "idle"]
                /\ lock' = release_lock(redisUp, lock, 2)
                /\ snap' = [snap EXCEPT ![2] = NoSnap]
    /\ UNCHANGED <<auxNotTx, scn, redisUp, cacheKeys, pc, req, eng, nPost,
                   nCancel, nTick, hist>>

\* a statement after the guard's UPDATE raises (flush, the position upsert,
\* the commit itself): the exception leaves the handler, the lock is
\* released, get_db closes the session
TxFail ==
    /\ tx.pc = "debited"
    /\ Commit(Rollback(DB, tx.db))
    /\ res' = "ServerError"
    /\ tx' = [tx EXCEPT !.pc = "idle"]
    /\ lock' = release_lock(redisUp, lock, 2)
    /\ snap' = [snap EXCEPT ![2] = NoSnap]
    /\ UNCHANGED <<auxNotTx, scn, redisUp, cacheKeys, pc, req, eng, nPost,
                   nCancel, nTick, hist>>

\* the remaining writes and db.commit()
TxCommit ==
    /\ tx.pc = "debited"
    /\ LET out == ExecuteOrder(DB, snap[2], req[2])
       IN  /\ Commit(out.db)
           /\ tx' = [pc |-> "idle", db |-> out.db]
    /\ res' = "ok"
    /\ lock' = release_lock(redisUp, lock, 2)
    /\ snap' = [snap EXCEPT ![2] = NoSnap]
    /\ UNCHANGED <<auxNotTx, scn, redisUp, cacheKeys, pc, req, eng, nPost,
                   nCancel, nTick, hist>>

\* another request of the same user runs before the first UPDATE of the
\* transaction, which holds the row from then on
TxOther == tx.pc \in {"idle", "loaded"} /\ SerialPost

TxNext ==
    \/ TxLoad
    \/ TxGuard
    \/ TxFail
    \/ TxCommit
    \/ TxOther

\* the serial scenarios, and one whose prices lie outside
\* PRICE_RANGES * (0.5, 2): a limit price of 24,000,000 and a client price
\* of 480,000,000 with no server price
TxScenarios ==
    SerialScenarios \cup
    { [code |-> "KRW-BTC", initial_balance |-> 1000000, held |-> 0,
       quantities |-> {50},
       limit_prices |-> [buy |-> {2400}, sell |-> {2400}],
       client_prices |-> {48000}, server_prices |-> {NoPrice},
       ticks |-> {<<"KRW-BTC", 10000>>},
       keys |-> {NoKey}] }

TxInit ==
    /\ scn \in TxScenarios
    /\ redisUp \in BOOLEAN
    /\ balance = JoinedDB(scn).balance
    /\ positions = JoinedDB(scn).positions
    /\ posSeq = JoinedDB(scn).posSeq
    /\ orders = JoinedDB(scn).orders
    /\ trades = JoinedDB(scn).trades
    /\ cacheKeys = {}
    /\ lock = NoHolder
    /\ pc = [r \in Procs |-> "idle"]
    /\ req = [r \in Procs |-> NoReq]
    /\ snap = [r \in Procs |-> NoSnap]
    /\ res = "none"
    /\ eng = EngIdle
    /\ nPost = 0 /\ nCancel = 0 /\ nTick = 0
    /\ hist = NoHist
    /\ AuxInit

TxSpec == TxInit /\ [][TxNext]_vars

\* C29: the stored balance, positions, orders and trades change only in the
\* step that commits an order and answers "ok"; every step of a request that
\* fails, before or after the debit of its atomic guard, and every step
\* before the commit leaves them as they were
C29_FailureLeavesStore ==
    [][/\ ~ UNCHANGED storeVars =>
             res' = "ok" /\ (tx.pc = "debited" \/ tx' = tx)
       /\ (tx.pc # "idle" /\ tx'.pc = "idle" /\ res' # "ok") =>
             UNCHANGED storeVars
      ]_vars

\* C29 witness: a request has failed after the debit of its guard, and the
\* stored balance is not the debited one its transaction saw
C29_Witness ==
    /\ res = "ServerError"
    /\ tx.pc = "idle"
    /\ tx.db.balance < balance
    /\ tx.db.orders = orders

\* C29 witness: a price outside the band has been refused by validate_price
C29_WitnessBand ==
    /\ res = "InvalidPrice"
    /\ tx.pc = "idle"
    /\ DB = JoinedDB(scn)

\* C29 witness: the atomic guard of a request has affected 0 rows
C29_WitnessGuard ==
    /\ res \in {"InsufficientBalanceConcurrent",
                "InsufficientPositionConcurrent"}
    /\ tx.pc = "idle"

\* C29 witness: a sell has failed after the debit of the position
C29_WitnessSell ==
    /\ res = "ServerError"
    /\ tx.pc = "idle"
    /\ \E c \in Codes : tx.db.positions[c].quantity < positions[c].quantity

(* ---------------------------------------------------------------------- *)
(* distributed_lock: every exit of the guarded block                       *)
(* ---------------------------------------------------------------------- *)
\* _execute_order has returned or raised and the EVAL of release_lock raises:
\* release_lock prints the error and returns False, the key stays as it is
LeaseExitError(r) ==
    /\ redisUp
    /\ lpc[r] = "crit"
    /\ myToken' = [myToken EXCEPT ![r] = NoHolder]
    /\ lpc' = [lpc EXCEPT ![r] = "idle"]
    /\ UNCHANGED <<orderVars, auxNotLease, lockToken, nToken, lapsed,
                   released>>

LeaseFaultNext ==
    \/ LeaseNext
    \/ \E r \in Procs : LeaseExitError(r)

\* a waiting request polls every 50 ms until it gets the key or its 5 s
\* are over; a handler inside _execute_order leaves it
LeaseLiveSpec ==
    /\ Init
    /\ [][LeaseFaultNext]_vars
    /\ \A r \in Procs :
          /\ WF_vars(LeaseAcquire(r) \/ LeaseTimeout(r))
          /\ WF_vars(LeaseExit(r) \/ LeaseExitError(r))

\* C31 as stated: after every exit of the guarded block the key does not
\* hold the handler's token, a timed-out acquisition releases nothing, and a
\* request that waits while the key is free gets the key
C31_Original ==
    /\ [][\A r \in Procs :
            /\ (lpc[r] = "crit" /\ lpc'[r] = "idle") =>
                  lockToken' # myToken[r]
            /\ (lpc[r] = "wait" /\ lpc'[r] = "refused") =>
                  UNCHANGED <<lockToken, released>>
         ]_vars
    /\ \A r \in Procs :
          (lpc[r] = "wait" /\ lockToken = NoHolder) ~> (lpc[r] = "crit")

\* C31: on every exit of the guarded block release_lock is called with the
\* handler's token, and when its script runs the key does not hold that
\* token afterwards; a request that gave up waiting calls no release and
\* leaves the key as it is, and it gives up only while the key is held; a
\* waiting request gets the key or gives up, it never waits forever
C31_ReleaseOnExit ==
    /\ [][\A r \in Procs :
            /\ LeaseExit(r) =>
                  /\ <<myToken[r], lockToken>> \in released'
                  /\ lockToken' # myToken[r]
                  /\ lockToken = myToken[r] => lockToken' = NoHolder
            /\ (lpc[r] = "wait" /\ lpc'[r] = "refused") =>
                  /\ UNCHANGED <<lockToken, released>>
                  /\ redisUp /\ lockToken # NoHolder
         ]_vars
    /\ \A r \in Procs :
          (lpc[r] = "wait") ~> (lpc[r] \in {"crit", "refused"})

\* C31 witness: a handler has left the guarded block and released its own
\* key, and the next request holds the key although no lease has run out
C31_Witness ==
    /\ redisUp
    /\ lapsed = {}
    /\ \E x \in released, q \in Procs :
          /\ x[1] = x[2]
          /\ lpc[q] = "crit" /\ myToken[q] = lockToken
          /\ lockToken > x[1]

\* C31 witness: a request has given up while the key was held
C31_WitnessRefused ==
    /\ redisUp
    /\ released = {}
    /\ \E r, q \in Procs :
          /\ lpc[r] = "refused"
          /\ lpc[q] = "crit" /\ myToken[q] = lockToken

-----------------------------------------------------------------------------
\* The two ingest loops and the archive batcher (api.py, price.py)

\* upbit_websocket_handler: websockets.connect and the send of the
\* subscribe frame; either can raise, which leads to the except branch
ApiConnect ==
    /\ apiconn = "connecting"
    /\ \E ok \in BOOLEAN :
          apiconn' = IF ok THEN "open" ELSE "backoff"
    /\ UNCHANGED <<orderVars, auxNotArch, buffer, thr, handed, archived,
                   lost, nRow, wsconn, main, stop_event>>

\* a read error, an abnormal close, or an exception raised while a tick is
\* handled (json.loads, broadcast) leaves the async for with an exception
ApiError ==
    /\ apiconn = "open"
    /\ apiconn' = "backoff"
    /\ UNCHANGED <<orderVars, auxNotArch, buffer, thr, handed, archived,
                   lost, nRow, wsconn, main, stop_event>>

\* a close with code 1000 or 1001 ends the async for without an exception:
\* the while True loop connects again without the sleep
ApiClosed ==
    /\ apiconn = "open"
    /\ apiconn' = "connecting"
    /\ UNCHANGED <<orderVars, auxNotArch, buffer, thr, handed, archived,
                   lost, nRow, wsconn, main, stop_event>>

\* except Exception: await asyncio.sleep(1), then the loop head
ApiBackoff ==
    /\ apiconn = "backoff"
    /\ apiconn' = "connecting"
    /\ UNCHANGED <<orderVars, auxNotArch, buffer, thr, handed, archived,
                   lost, nRow, wsconn, main, stop_event>>

\* price.py, the thread started by run_once: run_forever connects and
\* on_open sends the subscribe frame, or the connect fails and run_forever
\* returns
ArchOpen ==
    /\ main = "run_once"
    /\ wsconn = "connecting"
    /\ \E ok \in BOOLEAN :
          wsconn' = IF ok THEN "open" ELSE "ended"
    /\ UNCHANGED <<orderVars, auxNotArch, buffer, thr, handed, archived,
                   lost, nRow, main, stop_event, apiconn>>

\* the connection is lost between two callbacks: on_error and on_close
\* print, run_forever returns and its thread ends
ArchDrop ==
    /\ main = "run_once"
    /\ wsconn = "open"
    /\ thr["ws"].pc = "idle"
    /\ wsconn' = "ended"
    /\ UNCHANGED <<orderVars, auxNotArch, buffer, thr, handed, archived,
                   lost, nRow, main, stop_event, apiconn>>

\* the main thread in run_once: it sleeps 0.2 s while stop_event is clear
\* and never looks at the thread it started. A KeyboardInterrupt leaves the
\* loop through finally (ws.close) and reaches the handler of __main__, the
\* only place that sets stop_event; the daemon threads end with the process
ArchMain ==
    /\ main = "run_once"
    /\ \E interrupt \in BOOLEAN :
          IF interrupt
          THEN /\ main' = "stopped"
               /\ stop_event' = TRUE
               /\ wsconn' = "ended"
          ELSE IF stop_event
               THEN /\ main' = "stopped"
                    /\ wsconn' = "ended"
                    /\ UNCHANGED stop_event
               ELSE UNCHANGED <<main, stop_event, wsconn>>
    /\ UNCHANGED <<orderVars, auxNotArch, buffer, thr, handed, archived,
                   lost, nRow, apiconn>>

\* on_message: the row is appended under buffer_lock and should_flush is
\* computed under the same lock
ArchMessage ==
    /\ main = "run_once"
    /\ wsconn = "open"
    /\ thr["ws"].pc = "idle"
    /\ nRow < MaxRows
    /\ nRow' = nRow + 1
    /\ buffer' = Append(buffer, nRow + 1)
    /\ LET should_flush == Len(buffer') >= BATCH_SIZE
       IN  thr' = [thr EXCEPT !["ws"].pc =
                       IF should_flush THEN "flush" ELSE "idle"]
    /\ UNCHANGED <<orderVars, auxNotArch, handed, archived, lost, wsconn,
                   main, stop_event, apiconn>>

\* flush_thread: FLUSH_INTERVAL has elapsed
FlushWake ==
    /\ main = "run_once"
    /\ ~ stop_event
    /\ thr["flush"].pc = "idle"
    /\ thr' = [thr EXCEPT !["flush"].pc = "flush"]
    /\ UNCHANGED <<orderVars, auxNotArch, buffer, handed, archived, lost,
                   nRow, wsconn, main, stop_event, apiconn>>

\* a variant of the locked section that copies the buffer and leaves it
TakeWithoutReset(buf) == [rows |-> buf, buffer |-> buf]

\* flush_buffer, the section under buffer_lock: rows = buffer.copy() and
\* buffer = []
TakeUnderLock(buf) == [rows |-> buf, buffer |-> << >>]

\* flush_buffer up to the release of buffer_lock
Take(th) ==
    /\ main = "run_once"
    /\ thr[th].pc = "flush"
    /\ IF buffer = << >>
       THEN /\ thr' = [thr EXCEPT ![th] = ThreadIdle]
            /\ UNCHANGED buffer
       ELSE /\ thr' = [thr EXCEPT ![th] =
                          [pc |-> "insert", rows |-> TakeUnderLock(buffer).rows]]
            /\ buffer' = TakeUnderLock(buffer).buffer
    /\ UNCHANGED <<orderVars, auxNotArch, handed, archived, lost, nRow,
                   wsconn, main, stop_event, apiconn>>

\* flush_buffer after the lock: ch_client.insert returns or raises, and the
\* exception is printed and dropped with the batch
Insert(th) ==
    /\ main = "run_once"
    /\ thr[th].pc = "insert"
    /\ LET batch == {thr[th].rows[i] : i \in 1..Len(thr[th].rows)}
       IN  /\ handed' = [x \in Rows |->
                            IF x \in batch THEN handed[x] + 1 ELSE handed[x]]
           /\ \E ok \in BOOLEAN :
                 IF ok
                 THEN archived' = archived \cup batch /\ UNCHANGED lost
                 ELSE lost' = lost \cup batch /\ UNCHANGED archived
    /\ thr' = [thr EXCEPT ![th] = ThreadIdle]
    /\ UNCHANGED <<orderVars, auxNotArch, buffer, nRow, wsconn, main,
                   stop_event, apiconn>>

ArchiveNext ==
    \/ ApiConnect
    \/ ApiError
    \/ ApiClosed
    \/ ApiBackoff
    \/ ArchOpen
    \/ ArchDrop
    \/ ArchMain
    \/ ArchMessage
    \/ FlushWake
    \/ \E th \in Threads : Take(th)
    \/ \E th \in Threads : Insert(th)

ArchiveSpec == Init /\ [][ArchiveNext]_vars

\* the event loop resumes the handler after the sleep and the connect; the
\* threads of price.py are scheduled while the process runs. Nothing obliges
\* an interrupt to arrive, so ArchMain carries no fairness
ArchiveLiveSpec ==
    /\ ArchiveSpec
    /\ WF_vars(ApiConnect)
    /\ WF_vars(ApiBackoff)
    /\ WF_vars(ArchOpen)
    /\ WF_vars(FlushWake)
    /\ \A th \in Threads : WF_vars(Take(th)) /\ WF_vars(Insert(th))

\* after an error of the API handler's connection a new connect is attempted
ApiReconnects == (apiconn = "backoff") ~> (apiconn = "connecting")

\* after the archive writer's connection ended a new one is opened, unless
\* the process is stopped
ArchiveReconnects ==
    (wsconn = "ended") ~> (wsconn \in {"connecting", "open"} \/ main = "stopped")

\* C32: after any error on the upstream connection each of the two ingest
\* loops connects again; neither stays disconnected while the process runs
C32_BothLoopsReconnect == ApiReconnects /\ ArchiveReconnects

\* the places a row can be: the buffer, the batch a thread took, an insert
InBuffer(x) == \E i \in 1..Len(buffer) : buffer[i] = x

TakenBy(x) == {th \in Threads : \E i \in 1..Len(thr[th].rows) : thr[th].rows[i] = x}

Places(x) ==
    (IF InBuffer(x) THEN 1 ELSE 0) + Cardinality(TakenBy(x)) + handed[x]

\* every appended row is in one place, the buffer never holds more than
\* BATCH_SIZE rows and on_message is on its way to flush_buffer when it does
BatcherInvariant ==
    /\ \A x \in Rows :
          /\ Places(x) = IF x <= nRow THEN 1 ELSE 0
          /\ handed[x] = 1 <=> x \in archived \cup lost
    /\ archived \cap lost = {}
    /\ Len(buffer) <= BATCH_SIZE
    /\ Len(buffer) = BATCH_SIZE => thr["ws"].pc = "flush"

\* an insert that raised drops its batch and nothing else
FailureDropsBatch ==
    \A th \in Threads :
       (thr[th].pc = "insert" /\ thr'[th].pc = "idle" /\ lost' # lost) =>
          /\ buffer' = buffer
          /\ archived' = archived
          /\ \A o \in Threads \ {th} : thr'[o] = thr[o]
          /\ lost' \ lost = {x \in Rows : th \in TakenBy(x)}

\* C33 as stated: every appended row is handed to exactly one insert call,
\* never two and never none, a flush is triggered when the buffer reaches
\* BATCH_SIZE, and a failed insert drops its batch only
C33_Original ==
    /\ []BatcherInvariant
    /\ [][FailureDropsBatch]_vars
    /\ \A x \in Rows : (x <= nRow) ~> (handed[x] = 1)

\* C33: every appended row is in the buffer, in the batch one thread took,
\* or was handed to one insert call, never to two; a flush is triggered when
\* the buffer reaches BATCH_SIZE; a failed insert drops its batch only; and
\* while the process runs every appended row reaches an insert call
C33_HandedOnce ==
    /\ []BatcherInvariant
    /\ [][FailureDropsBatch]_vars
    /\ \A x \in Rows : (x <= nRow) ~> (handed[x] = 1 \/ main = "stopped")

\* C33 witness: on_message and the flush thread are both between the lock
\* and their insert, on_message with a full batch, after an earlier batch
\* was dropped
C33_Witness ==
    /\ thr["ws"].pc = "insert" /\ Len(thr["ws"].rows) = BATCH_SIZE
    /\ thr["flush"].pc = "insert"
    /\ lost # {}

\* C33 witness: a batch was dropped and a later row was inserted
C33_WitnessLater ==
    \E x \in lost, y \in archived : x < y

-----------------------------------------------------------------------------
\* Orders of a participant whose competition an admin changes

\* the competition the participant of the serial scenarios has joined
Own == "A"

\* a CompetitionUpdateFull in which every field is None; `given' holds the
\* names of the fields that are not None
EmptyRequest ==
    [given |-> {}, fee_rate |-> 0, start_time |-> 0, end_time |-> 0,
     status |-> ""]

\* the fee rates an admin gives a competition: 0.05 % and 0.1 %
FeeRates == {FeeNum, 2 * FeeNum}

\* a request of PUT /competitions/{id}/full that sets fee_rate only
RateRequest(rate) ==
    [EmptyRequest EXCEPT !.given = {"fee_rate"}, !.fee_rate = rate]

\* a request of PUT /competitions/{id}/full that sets status only
StatusRequest(status) ==
    [EmptyRequest EXCEPT !.given = {"status"}, !.status = status]

\* update_competition_full: the fields of the request that are not None are
\* stored; a row with start_time >= end_time is refused with 400
update_competition_full(c, request) ==
    LET start_time == IF "start_time" \in request.given
                      THEN request.start_time ELSE comps[c].start_time
        end_time == IF "end_time" \in request.given
                    THEN request.end_time ELSE comps[c].end_time
        status == IF "status" \in request.given
                  THEN request.status ELSE comps[c].status
    IN  /\ start_time < end_time
        /\ comps' = [comps EXCEPT ![c] = [status |-> status,
                                          start_time |-> start_time,
                                          end_time |-> end_time]]
        /\ fee_rate' = [fee_rate EXCEPT ![c] =
                           IF "fee_rate" \in request.given
                           THEN request.fee_rate ELSE @]
        /\ last' = NoRun
        /\ UNCHANGED <<orderVars, auxNotCompRate, now, member, hpc, placed>>

\* the handlers of SerialSpec, and an admin who sets the fee rate of the
\* participant's competition
RateNext ==
    \/ SerialNext
    \/ \E rate \in FeeRates : update_competition_full(Own, RateRequest(rate))

RateInit == SerialInit /\ redisUp

RateSpec == RateInit /\ [][RateNext]_vars

\* the fee of a total at the rate stored on the competition
FeeAt(total_amount, rate) == (total_amount * rate) \div FeeDen

\* C34: the fee recorded on every fill, and the fee held back with a limit
\* buy's reservation, is total_amount times the fee_rate of the
\* participant's own competition
C34_FeeAtCompetitionRate ==
    [][/\ \A i \in 1..Len(trades') :
             i > Len(trades) =>
                trades'[i].fee = FeeAt(trades'[i].total_amount, fee_rate[Own])
       /\ \A i \in 1..Len(orders') :
             (orders'[i].status = "filled"
              /\ (i > Len(orders) \/ orders[i].status # "filled")) =>
                orders'[i].fee =
                   FeeAt(orders'[i].filled_price * orders'[i].quantity,
                         fee_rate[Own])
       /\ (/\ Len(orders') = Len(orders) + 1
           /\ orders'[Len(orders')].status = "pending"
           /\ orders'[Len(orders')].side = "buy") =>
             LET o == orders'[Len(orders')]
             IN  balance - balance' =
                    o.price * o.quantity
                    + FeeAt(o.price * o.quantity, fee_rate[Own])
      ]_vars

\* every fee is computed at the rate of the setting FEE_RATE
FeeAtSetting ==
    [][/\ \A i \in 1..Len(trades') :
             i > Len(trades) =>
                trades'[i].fee = FeeAt(trades'[i].total_amount, FeeNum)
       /\ (/\ Len(orders') = Len(orders) + 1
           /\ orders'[Len(orders')].status = "pending"
           /\ orders'[Len(orders')].side = "buy") =>
             LET o == orders'[Len(orders')]
             IN  balance - balance' =
                    o.price * o.quantity + FeeAt(o.price * o.quantity, FeeNum)
      ]_vars

-----------------------------------------------------------------------------
\* C35: when the participant's only order is a limit buy that a tick filled
\* at e <= l, what the order has taken from the balance (the reservation of
\* create_limit_order less the refund of execute_limit_order) is e * qty
\* plus the fee recorded on the Order and on its Trade
C35_WithheldEqualsRecorded ==
    (/\ Len(orders) = 1
     /\ orders[1].order_type = "limit" /\ orders[1].side = "buy"
     /\ orders[1].status = "filled"
     /\ orders[1].filled_price <= orders[1].price) =>
        /\ Len(trades) = 1
        /\ trades[1].fee = orders[1].fee
        /\ scn.initial_balance - balance =
              orders[1].filled_price * orders[1].quantity + orders[1].fee

\* what the order has taken is e * qty plus the fee on the limit price
WithheldAtLimitPrice ==
    (/\ Len(orders) = 1
     /\ orders[1].order_type = "limit" /\ orders[1].side = "buy"
     /\ orders[1].status = "filled") =>
        /\ trades[1].fee = orders[1].fee
        /\ orders[1].fee =
              FeeAt(orders[1].filled_price * orders[1].quantity, FeeNum)
        /\ scn.initial_balance - balance =
              orders[1].filled_price * orders[1].quantity
              + FeeAt(orders[1].price * orders[1].quantity, FeeNum)

-----------------------------------------------------------------------------
\* Sells that leave a remainder of at most 0.0001 coin

\* a participant holding 0.0101 BTC who sells 0.01 BTC
DustScenarios ==
    SerialScenarios \cup
    { [code |-> "KRW-BTC", initial_balance |-> 2000500, held |-> 101,
       quantities |-> {100},
       limit_prices |-> [buy |-> {9600}, sell |-> {10400}],
       client_prices |-> {10000}, server_prices |-> {10000},
       ticks |-> {<<"KRW-BTC", 9400>>, <<"KRW-BTC", 10600>>},
       keys |-> {NoKey}] }

DustInit ==
    /\ scn \in DustScenarios
    /\ redisUp \in BOOLEAN
    /\ balance = JoinedDB(scn).balance
    /\ positions = JoinedDB(scn).positions
    /\ posSeq = JoinedDB(scn).posSeq
    /\ orders = JoinedDB(scn).orders
    /\ trades = JoinedDB(scn).trades
    /\ cacheKeys = {}
    /\ lock = NoHolder
    /\ pc = [r \in Procs |-> "idle"]
    /\ req = [r \in Procs |-> NoReq]
    /\ snap = [r \in Procs |-> NoSnap]
    /\ res = "none"
    /\ eng = EngIdle
    /\ nPost = 0 /\ nCancel = 0 /\ nTick = 0
    /\ hist = NoHist
    /\ AuxInit

DustSpec == DustInit /\ [][SerialNext]_vars

\* the coin of a code reserved by the pending sell orders
RECURSIVE ReservedCoin(_, _, _)
ReservedCoin(os, i, code) ==
    IF i > Len(os) THEN 0
    ELSE (IF os[i].status = "pending" /\ os[i].side = "sell"
             /\ os[i].code = code
          THEN os[i].quantity ELSE 0) + ReservedCoin(os, i + 1, code)

\* Position.quantity plus the coin reserved by pending sell orders
Holdings(pos, os, code) == pos[code].quantity + ReservedCoin(os, 1, code)

\* the quantity bought less the quantity sold by the trades from index i on
RECURSIVE TradedNet(_, _, _)
TradedNet(ts, i, code) ==
    IF i > Len(ts) THEN 0
    ELSE (IF ts[i].code # code THEN 0
          ELSE IF ts[i].side = "buy" THEN ts[i].quantity
          ELSE 0 - ts[i].quantity) + TradedNet(ts, i + 1, code)

SellsIn(ts, i, code) ==
    {j \in i..Len(ts) : ts[j].code = code /\ ts[j].side = "sell"}

\* C36: a step that records a sell of quantity q changes the participant's
\* total holdings of that code by exactly the quantities it trades: the
\* cleanup after a sell removes no coin that was not sold
C36_SellRemovesExactlyQ ==
    [][\A code \in Codes :
          SellsIn(trades', Len(trades) + 1, code) # {} =>
             Holdings(positions', orders', code) =
                Holdings(positions, orders, code)
                + TradedNet(trades', Len(trades) + 1, code)
      ]_vars

\* a step that records a sell removes the quantity sold, and a remainder of
\* at most 0.0001 coin with the Position row it deletes
SellRemovesQAndDust ==
    [][\A code \in Codes :
          SellsIn(trades', Len(trades) + 1, code) # {} =>
             LET expected == Holdings(positions, orders, code)
                             + TradedNet(trades', Len(trades) + 1, code)
                 after == Holdings(positions', orders', code)
             IN  \/ after = expected
                 \/ /\ positions'[code] = NoRow
                    /\ expected - after \in 1..Epsilon
      ]_vars

-----------------------------------------------------------------------------
\* Orders left pending when their competition ends

\* POST /admin/competitions/{id}/activate: refused for an ended competition
activate_competition(c) ==
    /\ comps[c].status # "ended"
    /\ comps' = [comps EXCEPT ![c].status = "active"]
    /\ last' = NoRun
    /\ UNCHANGED <<orderVars, auxNotComp, now, member, hpc, placed>>

\* POST /admin/competitions/{id}/end
end_competition(c) ==
    /\ comps' = [comps EXCEPT ![c].status = "ended"]
    /\ last' = NoRun
    /\ UNCHANGED <<orderVars, auxNotComp, now, member, hpc, placed>>

\* create_order: the participant's competition has status 'active' and the
\* clock is inside its window; then the handler of SerialSpec
ContestPost ==
    /\ comps[Own].status = "active"
    /\ validate_competition_time(comps[Own], now) = "ok"
    /\ SerialPost

\* time passes until the end_time of the participant's competition is over
ContestAdvance ==
    /\ now <= comps[Own].end_time
    /\ Advance

\* the orders one participant of competition Own posts, the ticks of the
\* feed, the clock, the lifecycle task and the admin's activate and end
ContestNext ==
    \/ ContestPost
    \/ SerialTick
    \/ activate_competition(Own)
    \/ end_competition(Own)
    \/ LifecycleRun
    \/ ContestAdvance

ContestInit == SerialInit /\ redisUp

ContestSpec == ContestInit /\ [][ContestNext]_vars

\* the participant's competition is over
ContestOver == comps[Own].status = "ended" \/ now > comps[Own].end_time

\* C37: once the participant's competition has status 'ended', or its
\* end_time has passed, no order is filled and no Trade is created
C37_NoFillAfterEnd ==
    [][ContestOver =>
          /\ trades' = trades
          /\ \A i \in 1..Len(orders) :
                orders[i].status # "filled" => orders'[i].status # "filled"
      ]_vars

\* once the competition is over no order is created, and a tick fills the
\* pending orders as before
NoPostAfterEnd ==
    [][ContestOver =>
          /\ Len(orders') = Len(orders)
          /\ (nTick' = nTick + 1) =>
                (DB' = process_ticker(DB, req'[1].code, req'[1].price))
      ]_vars

-----------------------------------------------------------------------------
\* The status of a competition under the lifecycle task and the admin

\* a request of PUT /competitions/{id}/full that sets both times
TimesRequest(start_time, end_time) ==
    [EmptyRequest EXCEPT !.given = {"start_time", "end_time"},
                         !.start_time = start_time, !.end_time = end_time]

Statuses == {"pending", "active", "ended"}

FullRequests ==
    {StatusRequest(status) : status \in Statuses}
    \cup {TimesRequest(s, e) : s \in 0..MaxTime, e \in 0..MaxTime}

AdminNext ==
    \/ \E c \in Comps : activate_competition(c)
    \/ \E c \in Comps : end_competition(c)
    \/ \E c \in Comps, status \in Statuses : AdminUpdate(c, status)
    \/ \E c \in Comps, request \in FullRequests :
          update_competition_full(c, request)
    \/ LifecycleRun
    \/ Advance

AdminSpec == CompInit /\ [][AdminNext]_vars

\* pending -> active -> ended
Rank(status) ==
    IF status = "pending" THEN 0 ELSE IF status = "active" THEN 1 ELSE 2

Forward == \A c \in Comps : Rank(comps'[c].status) >= Rank(comps[c].status)

\* C38: under any sequence of lifecycle runs and admin operations the status
\* of a competition only moves forward along pending -> active -> ended
C38_StatusOnlyForward == [][Forward]_vars

\* the lifecycle task, activate and end move the status forward only
TaskAndButtonsForward ==
    [][(\/ LifecycleRun
        \/ \E c \in Comps : activate_competition(c)
        \/ \E c \in Comps : end_competition(c)) => Forward]_vars

====
